---- MODULE Spec2Model ----
(***************************************************************************)
(* Questgen: the question generator of backend/app/services.              *)
(*                                                                         *)
(* Text is a sequence of one-character strings, so that trimming, case     *)
(* folding, splitting, slicing and concatenation are computed as the       *)
(* Python string methods compute them.  None is the value NoneValue.       *)
(*                                                                         *)
(* The process constructs generators, may call _load_ai_model on one, and  *)
(* calls generate_questions, one loop iteration per step.  What the T5     *)
(* backend decodes, whether a backend call raises, which step of loading   *)
(* fails and whether scoring raises are inputs of the steps.               *)
(* word_tokenize is the fallback the module defines at line 31,            *)
(* text.split().                                                           *)
(***************************************************************************)
EXTENDS Integers, Sequences, FiniteSets, TLC

\* ------------------------------------------------------------------ text

\* Python's None, kept apart from every text.
NoneValue ==
    <<"<None>">>

Min(a, b) ==
    IF a <= b THEN a ELSE b

\* \s of the re module and the characters str.strip() removes.
IsSpace(c) ==
    c \in {" ", "\n", "\t"}

UpperCase ==
    <<"A","B","C","D","E","F","G","H","I","J","K","L","M",
      "N","O","P","Q","R","S","T","U","V","W","X","Y","Z">>

LowerCase ==
    <<"a","b","c","d","e","f","g","h","i","j","k","l","m",
      "n","o","p","q","r","s","t","u","v","w","x","y","z">>

ToLower ==
    [c \in {UpperCase[k] : k \in 1..26} |-> LowerCase[CHOOSE k \in 1..26 : UpperCase[k] = c]]

ToUpper ==
    [c \in {LowerCase[k] : k \in 1..26} |-> UpperCase[CHOOSE k \in 1..26 : LowerCase[k] = c]]

\* str.islower() of one character
IsLower(c) ==
    c \in DOMAIN ToUpper

LowerChar(c) ==
    IF c \in DOMAIN ToLower THEN ToLower[c] ELSE c

UpperChar(c) ==
    IF c \in DOMAIN ToUpper THEN ToUpper[c] ELSE c

\* str.lower()
Lower(s) ==
    IF s = <<>> THEN <<>> ELSE [i \in 1..Len(s) |-> LowerChar(s[i])]

\* chr(n) for the capital letters, chr(65) = "A"
Chr(n) ==
    UpperCase[n - 64]

\* s[:n]
Slice(s, n) ==
    SubSeq(s, 1, Min(n, Len(s)))

\* the text after its leading run of whitespace (str.lstrip(), a leading \s*)
LStrip(s) ==
    LET lead == {k \in 1..Len(s) : \A j \in 1..k : IsSpace(s[j])}
    IN  SubSeq(s, Cardinality(lead) + 1, Len(s))

\* str.rstrip()
RStrip(s) ==
    LET trail == {k \in 1..Len(s) : \A j \in 0..(k - 1) : IsSpace(s[Len(s) - j])}
    IN  SubSeq(s, 1, Len(s) - Cardinality(trail))

\* str.strip()
Strip(s) ==
    RStrip(LStrip(s))

\* str.find(c) + 1 for a one-character c: the first place of c in s, 0 when there is none
Find(s, c) ==
    LET at == {k \in 1..Len(s) : s[k] = c}
    IN  IF at = {} THEN 0 ELSE CHOOSE k \in at : \A n \in at : k <= n

\* str.startswith / str.endswith
StartsWith(s, p) ==
    Len(p) <= Len(s) /\ SubSeq(s, 1, Len(p)) = p

EndsWith(s, p) ==
    Len(p) <= Len(s) /\ SubSeq(s, Len(s) - Len(p) + 1, Len(s)) = p

\* sub in s
Contains(s, sub) ==
    \/ sub = <<>>
    \/ \E k \in 1..(Len(s) - Len(sub) + 1) :
           s[k] = sub[1] /\ SubSeq(s, k, k + Len(sub) - 1) = sub

\* str.split(sep) for a one-character separator
RECURSIVE Split(_, _)
Split(s, sep) ==
    LET at == Find(s, sep)
    IN  IF at = 0 THEN <<s>>
        ELSE <<SubSeq(s, 1, at - 1)>> \o Split(SubSeq(s, at + 1, Len(s)), sep)

\* re.sub(r'\s+', ' ', s): a run of whitespace keeps one place, which holds a space
Dropped ==
    "<dropped>"

IsKept(c) ==
    c # Dropped

CollapseSpaces(s) ==
    SelectSeq([k \in 1..Len(s) |->
                  IF ~IsSpace(s[k]) THEN s[k]
                  ELSE IF k > 1 /\ IsSpace(s[k - 1]) THEN Dropped
                  ELSE " "],
              IsKept)

\* ------------------------------------------------------------- the texts

\* 'What is the main topic of this text?'
NoTopicQuestion ==
    <<"W","h","a","t"," ","i","s"," ","t","h","e"," ","m","a","i","n"," ","t","o","p","i",
      "c"," ","o","f"," ","t","h","i","s"," ","t","e","x","t","?">>

\* "What is the main topic discussed in: '"
McqPrefix ==
    <<"W","h","a","t"," ","i","s"," ","t","h","e"," ","m","a","i","n"," ","t","o","p","i",
      "c"," ","d","i","s","c","u","s","s","e","d"," ","i","n",":"," ","'">>

\* "...'?"
McqSuffix ==
    <<".",".",".","'","?">>

\* '...'
Ellipsis ==
    <<".",".",".">>

\* 'The text contains factual information that can be verified?'
TrueFalseQuestion ==
    <<"T","h","e"," ","t","e","x","t"," ","c","o","n","t","a","i","n","s"," ","f","a","c",
      "t","u","a","l"," ","i","n","f","o","r","m","a","t","i","o","n"," ","t","h","a","t",
      " ","c","a","n"," ","b","e"," ","v","e","r","i","f","i","e","d","?">>

\* 'What are the key points discussed in this text?'
ShortAnswerQuestion ==
    <<"W","h","a","t"," ","a","r","e"," ","t","h","e"," ","k","e","y"," ","p","o","i","n",
      "t","s"," ","d","i","s","c","u","s","s","e","d"," ","i","n"," ","t","h","i","s"," ",
      "t","e","x","t","?">>

\* 'Explain in detail the main concepts and their relationships as discussed in this text.'
LongAnswerQuestion ==
    <<"E","x","p","l","a","i","n"," ","i","n"," ","d","e","t","a","i","l"," ","t","h","e",
      " ","m","a","i","n"," ","c","o","n","c","e","p","t","s"," ","a","n","d"," ","t","h",
      "e","i","r"," ","r","e","l","a","t","i","o","n","s","h","i","p","s"," ","a","s"," ",
      "d","i","s","c","u","s","s","e","d"," ","i","n"," ","t","h","i","s"," ","t","e","x",
      "t",".">>

\* 'How would you apply the concepts from this text to solve a real-world problem?'
HotsQuestion ==
    <<"H","o","w"," ","w","o","u","l","d"," ","y","o","u"," ","a","p","p","l","y"," ","t",
      "h","e"," ","c","o","n","c","e","p","t","s"," ","f","r","o","m"," ","t","h","i","s",
      " ","t","e","x","t"," ","t","o"," ","s","o","l","v","e"," ","a"," ","r","e","a","l",
      "-","w","o","r","l","d"," ","p","r","o","b","l","e","m","?">>

\* 'What is the main topic discussed in this text?'
DefaultQuestion ==
    <<"W","h","a","t"," ","i","s"," ","t","h","e"," ","m","a","i","n"," ","t","o","p","i",
      "c"," ","d","i","s","c","u","s","s","e","d"," ","i","n"," ","t","h","i","s"," ","t",
      "e","x","t","?">>

\* 'The main topic of the text'
MainTopicAnswer ==
    <<"T","h","e"," ","m","a","i","n"," ","t","o","p","i","c"," ","o","f"," ","t","h","e",
      " ","t","e","x","t">>

\* 'A secondary topic'
DistractorSecondary ==
    <<"A"," ","s","e","c","o","n","d","a","r","y"," ","t","o","p","i","c">>

\* 'An unrelated subject'
DistractorUnrelated ==
    <<"A","n"," ","u","n","r","e","l","a","t","e","d"," ","s","u","b","j","e","c","t">>

\* 'None of the above'
DistractorNoneOfAbove ==
    <<"N","o","n","e"," ","o","f"," ","t","h","e"," ","a","b","o","v","e">>

\* 'Option '
OptionWord ==
    <<"O","p","t","i","o","n"," ">>

\* 'Key points from the text'
ShortAnswerKey ==
    <<"K","e","y"," ","p","o","i","n","t","s"," ","f","r","o","m"," ","t","h","e"," ","t",
      "e","x","t">>

\* 'Detailed explanation required'
LongAnswerKey ==
    <<"D","e","t","a","i","l","e","d"," ","e","x","p","l","a","n","a","t","i","o","n"," ",
      "r","e","q","u","i","r","e","d">>

\* 'Application and analysis required'
HotsAnswerKey ==
    <<"A","p","p","l","i","c","a","t","i","o","n"," ","a","n","d"," ","a","n","a","l","y",
      "s","i","s"," ","r","e","q","u","i","r","e","d">>

\* 'True'
StrTrue ==
    <<"T","r","u","e">>

\* 'False'
StrFalse ==
    <<"F","a","l","s","e">>

\* 'Hi'
ChunkHi ==
    <<"H","i">>

\* '   short    '
ChunkPadded ==
    <<" "," "," ","s","h","o","r","t"," "," "," "," ">>

\* 'Ten chars.'
ChunkTen ==
    <<"T","e","n"," ","c","h","a","r","s",".">>

\* 'The Earth is round and orbits the Sun.'
ChunkEarth ==
    <<"T","h","e"," ","E","a","r","t","h"," ","i","s"," ","r","o","u","n","d"," ","a","n",
      "d"," ","o","r","b","i","t","s"," ","t","h","e"," ","S","u","n",".">>

\* 'Mars rocks. Red dust'
ChunkMars ==
    <<"M","a","r","s"," ","r","o","c","k","s","."," ","R","e","d"," ","d","u","s","t">>

\* 'what is it'
ReplyQuestion ==
    <<"w","h","a","t"," ","i","s"," ","i","t">>

\* 'q: no'
ReplyArtifact ==
    <<"q",":"," ","n","o">>

\* 'b'
ReplyOne ==
    <<"b">>

\* 'What is it?,  b , c, d'
ReplyMany ==
    <<"W","h","a","t"," ","i","s"," ","i","t","?",","," "," ","b"," ",","," ","c",","," ",
      "d">>

\* ' no\n'
ReplyTiny ==
    <<" ","n","o","\n">>

\* the vocabulary of _score_question_quality, line 178
QuestionWords ==
    { <<"w","h","a","t">>,
      <<"w","h","o">>,
      <<"w","h","e","n">>,
      <<"w","h","e","r","e">>,
      <<"w","h","y">>,
      <<"h","o","w">>,
      <<"w","h","i","c","h">>,
      <<"e","x","p","l","a","i","n">>,
      <<"d","e","s","c","r","i","b","e">>,
      <<"c","o","m","p","a","r","e">> }

\* ------------------------------------------------------------ the generator

VARIABLES
    AI_AVAILABLE,     \* the module's global flag (line 9)
    rng,              \* the state of the random module's process-wide generator
    qg,               \* the QuestionGenerator: model_name, device, tokenizer, model,
                      \* question_generator, torch
    pc,               \* "none" (no generator yet), "idle", "loop" (in the loops of
                      \* generate_questions), "done" (generate_questions has returned)
    context_chunks,   \* argument of the running generate_questions call
    config,           \* argument of the running generate_questions call
    valid_contexts,   \* local of generate_questions
    q_index,          \* position of the outer loop in question_types_map (1..5)
    i,                \* the inner loop counter
    questions,        \* local, then result, of generate_questions
    answer_key,       \* local, then result, of generate_questions
    log,              \* history: one entry per loop iteration that ran in this call
    last,             \* history: the iteration that ran last, with what the backend did
    last_op,          \* history: the last operation completed on the generator
    called,           \* the last call made outside the generator (text processor,
                      \* scoring, an endpoint behind token_required), with its
                      \* arguments and what it returned
    db,               \* FirebaseService.db: TRUE for a Firestore client, FALSE for None
    bank,             \* the question bank document as Firestore stores it
    updates           \* the update_question calls, one per caller: position,
                      \* arguments and locals

vars ==
    <<AI_AVAILABLE, rng, qg, pc, context_chunks, config, valid_contexts,
      q_index, i, questions, answer_key, log, last, last_op, called,
      db, bank, updates>>

\* the variables of the Firestore service and of its callers
store_vars ==
    <<db, bank, updates>>

\* the threads that call update_question on the same bank
Callers ==
    {1, 2}

\* a bank document that does not exist (doc.exists is False)
NoBank ==
    [exists |-> FALSE, questions |-> <<>>, updated_at |-> 0]

\* a caller that has not called update_question
NoUpdate ==
    [pc |-> "idle", question_index |-> 0, data |-> "None", questions |-> <<>>,
     read_at |-> 0, raised |-> "None"]

\* the process before any FirebaseService exists
NoService ==
    /\ db = FALSE
    /\ bank = NoBank
    /\ updates = [c \in Callers |-> NoUpdate]

\* question_types_map in insertion order: config key and q_type
ConfigKeys ==
    <<"num_mcq", "num_true_false", "num_short_answer", "num_long_answer", "num_hots">>

\* a variant of the map whose first two entries are in the other order
QTypesTrueFalseFirst ==
    <<"true_false", "mcq", "short_answer", "long_answer", "hots">>

QTypes ==
    <<"mcq", "true_false", "short_answer", "long_answer", "hots">>

\* model names a generator is constructed with; the pretrained ones can be loaded
ModelNames ==
    {"t5-small", "rule-based"}

Pretrained ==
    {"t5-small"}

\* where _load_ai_model can fail
LoadSteps ==
    {"import", "device", "tokenizer", "model", "pipeline"}

\* self after the assignments of __init__, lines 56-61
NewGenerator(model_name) ==
    [model_name |-> model_name, device |-> "None", tokenizer |-> "None",
     model |-> "None", question_generator |-> "None", torch |-> "None"]

\* a variant without the assignment of line 130
use_rule_based_keeps_tokenizer(self) ==
    [self EXCEPT !.model_name = "rule-based", !.device = "None",
                 !.model = "None", !.question_generator = "None"]

use_rule_based(self) ==
    [self EXCEPT !.model_name = "rule-based", !.device = "None", !.tokenizer = "None",
                 !.model = "None", !.question_generator = "None"]

\* self after _load_ai_model when the step `fail` raises ("none": no step raises).
\* from_pretrained raises for a name that is no pretrained model.
load_ai_model(self, fail) ==
    LET s1 == [self EXCEPT !.torch = "torch"]
        s2 == [s1 EXCEPT !.device = "cpu"]
        s3 == [s2 EXCEPT !.tokenizer = "T5Tokenizer"]
        s4 == [s3 EXCEPT !.model = "T5ForConditionalGeneration"]
        s5 == [s4 EXCEPT !.question_generator = "pipeline"]
    IN  CASE fail = "import" -> use_rule_based(self)
          [] fail = "device" -> use_rule_based(s1)
          [] fail = "tokenizer" \/ (fail # "import" /\ fail # "device"
                                    /\ self.model_name \notin Pretrained)
                             -> use_rule_based(s2)
          [] fail = "model" -> use_rule_based(s3)
          [] fail = "pipeline" -> use_rule_based(s4)
          [] OTHER -> s5

\* the global flag after _load_ai_model: set once the import has succeeded
FlagAfterLoad(flag, fail) ==
    IF fail = "import" THEN flag ELSE TRUE

\* the branch of __init__ at line 65
InitTakesModel(flag, model_name) ==
    flag /\ model_name # "rule-based"

\* ---------------------------------------------------------------- constants

MinQuestionLength ==
    10

MinContextLength ==
    10

MinSentenceLength ==
    20

ContextPrefix ==
    100

SentencePrefix ==
    50

MinAnswerLength ==
    5

NumDistractors ==
    3

FirstOptionLetter ==
    66

DefaultDifficulty ==
    3

\* the difficulty the per-type generators pass on, lines 392, 414, 429, 444
TrueFalseDifficulty ==
    3

ShortAnswerDifficulty ==
    3

LongAnswerDifficulty ==
    4

HotsDifficulty ==
    5

\* ---------------------------------------------------------------- validation

Blacklist ==
    {<<>>, <<"n","o","n","e">>, <<"e","r","r","o","r">>, <<"f","a","i","l","e","d">>}

\* a variant without the test of line 153
validate_question_no_mark(question, question_type) ==
    LET stripped == Strip(question)
    IN  IF question = NoneValue \/ question = <<>> THEN FALSE
        ELSE IF Len(stripped) < MinQuestionLength THEN FALSE
        ELSE IF Lower(stripped) \in Blacklist THEN FALSE
        ELSE TRUE

validate_question(question, question_type) ==
    LET stripped == Strip(question)
    IN  IF question = NoneValue \/ question = <<>> THEN FALSE
        ELSE IF Len(stripped) < MinQuestionLength THEN FALSE
        ELSE IF ~EndsWith(stripped, <<"?">>) THEN FALSE
        ELSE IF Lower(stripped) \in Blacklist THEN FALSE
        ELSE TRUE

\* ------------------------------------------------------------------ scoring

\* word_tokenize as the module defines it, text.split(): the places where a token
\* starts, the places where one ends, the set of tokens
TokenStarts(text) ==
    {k \in 1..Len(text) : ~IsSpace(text[k]) /\ (k = 1 \/ IsSpace(text[k - 1]))}

TokenEnds(text) ==
    {k \in 1..Len(text) : ~IsSpace(text[k]) /\ (k = Len(text) \/ IsSpace(text[k + 1]))}

TokenSet(text) ==
    LET ends == TokenEnds(text)
    IN  {SubSeq(text, k, CHOOSE e \in ends : e >= k /\ \A n \in ends : n >= k => e <= n) :
            k \in TokenStarts(text)}

\* the bounds of the length bonus, lines 184 and 186
BestMinWords ==
    20

BestMaxWords ==
    100

FairMinWords ==
    10

FairMaxWords ==
    150

MinCommonWords ==
    2

\* a variant whose best range of lengths excludes its ends
score_question_quality_open_range(question, context) ==
    LET low == Lower(question)
        word_count == Cardinality(TokenStarts(question))
        common_words == TokenSet(Lower(context)) \cap TokenSet(low)
        bonus_word == IF \E w \in QuestionWords : Contains(low, w) THEN 2 ELSE 0
        bonus_length == IF BestMinWords < word_count /\ word_count < BestMaxWords THEN 2
                        ELSE IF \/ (FairMinWords <= word_count /\ word_count < BestMinWords)
                                \/ (BestMaxWords < word_count /\ word_count <= FairMaxWords)
                             THEN 1
                        ELSE 0
        bonus_context == IF Cardinality(common_words) >= MinCommonWords THEN 1 ELSE 0
    IN  Min(10, 5 + bonus_word + bonus_length + bonus_context)

\* _score_question_quality, in tenths: 5 is 0.5
score_question_quality(question, context) ==
    LET low == Lower(question)
        word_count == Cardinality(TokenStarts(question))
        common_words == TokenSet(Lower(context)) \cap TokenSet(low)
        bonus_word == IF \E w \in QuestionWords : Contains(low, w) THEN 2 ELSE 0
        bonus_length == IF BestMinWords <= word_count /\ word_count <= BestMaxWords THEN 2
                        ELSE IF \/ (FairMinWords <= word_count /\ word_count < BestMinWords)
                                \/ (BestMaxWords < word_count /\ word_count <= FairMaxWords)
                             THEN 1
                        ELSE 0
        bonus_context == IF Cardinality(common_words) >= MinCommonWords THEN 1 ELSE 0
    IN  Min(10, 5 + bonus_word + bonus_length + bonus_context)

\* --------------------------------------------------------------- generation

\* the prefixes the last re.sub of _clean_generated_text removes, in the order of
\* the alternation (question|q|answer|a):
Artifacts ==
    << <<"q","u","e","s","t","i","o","n",":">>, <<"q",":">>,
       <<"a","n","s","w","e","r",":">>, <<"a",":">> >>

\* re.sub(r'^(question|q|answer|a):\s*', '', text, flags=re.IGNORECASE)
RemoveArtifact(text) ==
    LET low == Lower(text)
        hit == {k \in 1..Len(Artifacts) : StartsWith(low, Artifacts[k])}
        first == CHOOSE k \in hit : \A n \in hit : k <= n
    IN  IF hit = {} THEN text
        ELSE LStrip(SubSeq(text, Len(Artifacts[first]) + 1, Len(text)))

clean_generated_text(text, question_type) ==
    LET t1 == CollapseSpaces(Strip(text))
        t2 == IF EndsWith(t1, <<"?">>) THEN t1 ELSE t1 \o <<"?">>
        t3 == IF t2 # <<>> /\ IsLower(t2[1]) THEN <<UpperChar(t2[1])>> \o Tail(t2) ELSE t2
    IN  RemoveArtifact(t3)

generate_rule_based_question(context, question_type, difficulty) ==
    LET sentences == Split(context, ".")
        first == Strip(sentences[1])
        first_sentence == IF Len(first) < MinSentenceLength
                          THEN Slice(context, ContextPrefix) \o Ellipsis
                          ELSE first
    IN  IF sentences = <<>> THEN NoTopicQuestion
        ELSE CASE question_type = "mcq" ->
                      McqPrefix \o Slice(first_sentence, SentencePrefix) \o McqSuffix
               [] question_type = "true_false" -> TrueFalseQuestion
               [] question_type = "short_answer" -> ShortAnswerQuestion
               [] question_type = "long_answer" -> LongAnswerQuestion
               [] question_type = "hots" -> HotsQuestion
               [] OTHER -> DefaultQuestion

\* One call of the backend (tokenizer.encode, model.generate, tokenizer.decode)
\* either raises or returns a text; NotCalled stands for the reply where the
\* generator has no pipeline and the backend is not called.
BackendRaises ==
    <<"<raise>">>

NotCalled ==
    <<"<not called>">>

\* a variant whose except clause falls back without the question type
generate_ai_question_untyped_fallback(context, question_type, difficulty, reply) ==
    IF qg.question_generator = "None"
    THEN generate_rule_based_question(context, question_type, difficulty)
    ELSE IF reply = BackendRaises
         THEN generate_rule_based_question(context, "mcq", difficulty)
         ELSE clean_generated_text(reply, question_type)

\* _generate_ai_question; `reply` is what the backend does in this call
generate_ai_question(context, question_type, difficulty, reply) ==
    IF qg.question_generator = "None"
    THEN generate_rule_based_question(context, question_type, difficulty)
    ELSE IF reply = BackendRaises
         THEN generate_rule_based_question(context, question_type, difficulty)
         ELSE clean_generated_text(reply, question_type)

generate_rule_based_distractors(context) ==
    <<DistractorSecondary, DistractorUnrelated, DistractorNoneOfAbove>>

\* [d.strip() for d in distractors_text.split(',') if d.strip()]
RECURSIVE StripNonEmpty(_)
StripNonEmpty(parts) ==
    IF parts = <<>> THEN <<>>
    ELSE IF Strip(Head(parts)) = <<>> THEN StripNonEmpty(Tail(parts))
    ELSE <<Strip(Head(parts))>> \o StripNonEmpty(Tail(parts))

\* while len(distractors) < 3: distractors.append(f"Option {chr(66 + len(distractors))}")
RECURSIVE PadDistractors(_)
PadDistractors(distractors) ==
    IF Len(distractors) < NumDistractors
    THEN PadDistractors(Append(distractors,
             OptionWord \o <<Chr(FirstOptionLetter + Len(distractors))>>))
    ELSE distractors

\* a variant without the while loop of line 350
ParseDistractorsUnpadded(distractors_text) ==
    Slice(StripNonEmpty(Split(distractors_text, ",")), NumDistractors)

\* lines 345-351
ParseDistractors(distractors_text) ==
    PadDistractors(Slice(StripNonEmpty(Split(distractors_text, ",")), NumDistractors))

\* the process-wide generator of the random module, reduced to the place it has
\* reached in its stream: its states, its next state, randbelow(n) drawn from it
RngStates ==
    {0, 1}

RngNext(r) ==
    (r + 1) % Cardinality(RngStates)

RandBelow(r, n) ==
    r % n

Swap(x, a, b) ==
    [x EXCEPT ![a] = x[b], ![b] = x[a]]

\* random.shuffle(x): for i in reversed(range(1, len(x))): j = randbelow(i + 1); swap
RECURSIVE ShuffleFrom(_, _, _)
ShuffleFrom(x, k, r) ==
    IF k < 2 THEN x
    ELSE ShuffleFrom(Swap(x, k, RandBelow(r, k) + 1), k - 1, RngNext(r))

shuffle(x, r) ==
    ShuffleFrom(x, Len(x), r)

RECURSIVE RngAfter(_, _)
RngAfter(r, draws) ==
    IF draws = 0 THEN r ELSE RngAfter(RngNext(r), draws - 1)

McqDistractors(context, reply) ==
    IF qg.question_generator # "None"
    THEN IF reply = BackendRaises
         THEN generate_rule_based_distractors(context)
         ELSE ParseDistractors(reply)
    ELSE generate_rule_based_distractors(context)

McqCorrectAnswer(context, difficulty, reply) ==
    IF qg.question_generator # "None"
    THEN LET correct_answer == generate_ai_question(context, "short_answer", difficulty, reply)
         IN  IF correct_answer = <<>> \/ Len(correct_answer) < MinAnswerLength
             THEN MainTopicAnswer
             ELSE correct_answer
    ELSE MainTopicAnswer

\* _generate_mcq_from_context: (question, options, correct_answer)
generate_mcq_from_context(context, difficulty, q_reply, d_reply, a_reply) ==
    LET question == IF qg.question_generator # "None"
                    THEN generate_ai_question(context, "mcq", difficulty, q_reply)
                    ELSE generate_rule_based_question(context, "mcq", difficulty)
        distractors == McqDistractors(context, d_reply)
        correct_answer == McqCorrectAnswer(context, difficulty, a_reply)
    IN  [question |-> question,
         options |-> shuffle(<<correct_answer>> \o distractors, rng),
         correct_answer |-> correct_answer]

\* a variant of the vocabulary that lacks its first word
FactualIndicatorsWithoutIs ==
    { <<"a","r","e">>, <<"w","a","s">>, <<"w","e","r","e">>,
      <<"h","a","s">>, <<"h","a","v","e">>, <<"h","a","d">>,
      <<"c","o","n","s","i","s","t","s">>, <<"c","o","n","t","a","i","n","s">>,
      <<"i","n","c","l","u","d","e","s">> }

\* the vocabulary of _generate_true_false_from_context, line 398
FactualIndicators ==
    { <<"i","s">>, <<"a","r","e">>, <<"w","a","s">>, <<"w","e","r","e">>,
      <<"h","a","s">>, <<"h","a","v","e">>, <<"h","a","d">>,
      <<"c","o","n","s","i","s","t","s">>, <<"c","o","n","t","a","i","n","s">>,
      <<"i","n","c","l","u","d","e","s">> }

\* _generate_true_false_from_context: (question, answer)
generate_true_false_from_context(context, reply) ==
    [question |-> IF qg.question_generator # "None"
                  THEN generate_ai_question(context, "true_false", TrueFalseDifficulty, reply)
                  ELSE generate_rule_based_question(context, "true_false", TrueFalseDifficulty),
     answer |-> LET low == Lower(context)
                IN  \E w \in FactualIndicators : Contains(low, w)]

generate_short_answer_from_context(context, reply) ==
    IF qg.question_generator # "None"
    THEN generate_ai_question(context, "short_answer", ShortAnswerDifficulty, reply)
    ELSE generate_rule_based_question(context, "short_answer", ShortAnswerDifficulty)

generate_long_answer_from_context(context, reply) ==
    IF qg.question_generator # "None"
    THEN generate_ai_question(context, "long_answer", LongAnswerDifficulty, reply)
    ELSE generate_rule_based_question(context, "long_answer", LongAnswerDifficulty)

generate_hots_from_context(context, reply) ==
    IF qg.question_generator # "None"
    THEN generate_ai_question(context, "hots", HotsDifficulty, reply)
    ELSE generate_rule_based_question(context, "hots", HotsDifficulty)

\* str(answer) for a bool
StrBool(b) ==
    IF b THEN StrTrue ELSE StrFalse


\* ------------------------------------------------------- generate_questions

\* the largest sum of the quotas of one request
MaxTotal ==
    2

\* the difficulty values a request carries when it carries one
GivenDifficulties ==
    {5}

\* a chunk list with one chunk that is long enough
ChunksOneValid ==
    << ChunkTen, ChunkMars >>

\* the chunk lists a request carries
ChunkLists ==
    { <<>>,
      << <<>>, NoneValue, ChunkHi, ChunkPadded, ChunkTen >>,
      << ChunkHi, ChunkEarth, NoneValue, ChunkMars >>,
      ChunksOneValid }

\* what the backend returns when it is asked for a question
QuestionReplies ==
    {ReplyQuestion, ReplyArtifact}

\* the outcomes of one backend call; without a loaded pipeline the backend is not called
Outcomes(replies) ==
    IF qg.question_generator = "None" THEN {NotCalled} ELSE replies \cup {BackendRaises}

\* what the backend does in the three calls of one MCQ iteration (question,
\* distractors, answer): each call returns a text or raises
McqReplies ==
    { <<ReplyQuestion, ReplyOne, ReplyTiny>>,
      <<ReplyQuestion, ReplyMany, ReplyQuestion>>,
      <<ReplyQuestion, BackendRaises, BackendRaises>>,
      <<ReplyArtifact, ReplyOne, ReplyQuestion>>,
      <<BackendRaises, ReplyMany, ReplyTiny>>,
      <<BackendRaises, ReplyOne, BackendRaises>>,
      <<BackendRaises, BackendRaises, ReplyQuestion>>,
      <<BackendRaises, BackendRaises, BackendRaises>> }

McqOutcomes ==
    IF qg.question_generator = "None" THEN {<<NotCalled, NotCalled, NotCalled>>}
    ELSE McqReplies

QuotaVectors ==
    {v \in [1..5 -> 0..MaxTotal] : v[1] + v[2] + v[3] + v[4] + v[5] <= MaxTotal}

\* the config dict of a request: the keys with a non-zero quota, and difficulty
\* when the request carries one
ConfigOf(v, ds) ==
    [key \in {ConfigKeys[k] : k \in {n \in 1..5 : v[n] > 0}}
              \cup (IF ds = {} THEN {} ELSE {"difficulty"})
        |-> IF key = "difficulty" THEN CHOOSE d \in ds : TRUE
            ELSE v[CHOOSE k \in 1..5 : ConfigKeys[k] = key]]

Configs ==
    {ConfigOf(v, ds) : v \in QuotaVectors, ds \in {{}} \cup {{d} : d \in GivenDifficulties}}

\* the configs of the requests with a chunk list: the ones with ChunksOneValid
\* carry no difficulty
ConfigsFor(chunks) ==
    IF chunks = ChunksOneValid THEN {ConfigOf(v, {}) : v \in QuotaVectors} ELSE Configs

\* dict.get(key, default)
ConfigGet(cfg, key, default) ==
    IF key \in DOMAIN cfg THEN cfg[key] ELSE default

\* a variant that measures the chunk without strip()
IsValidContextUntrimmed(ctx) ==
    ctx # NoneValue /\ ctx # <<>> /\ Len(ctx) > MinContextLength

\* ctx and len(ctx.strip()) > 10
IsValidContext(ctx) ==
    ctx # NoneValue /\ ctx # <<>> /\ Len(Strip(ctx)) > MinContextLength

\* the next (q_type index, i) the two loops reach from (k, n); <<>> when they end
RECURSIVE Pending(_, _, _)
Pending(cfg, k, n) ==
    IF k > Len(ConfigKeys) THEN <<>>
    ELSE IF n < ConfigGet(cfg, ConfigKeys[k], 0) THEN <<k, n>>
    ELSE Pending(cfg, k + 1, 0)

NoIteration ==
    [type |-> "none", i |-> 0, context |-> <<>>, candidate |-> <<>>,
     backend_raised |-> {}, outcome |-> "none", temperature |-> 0]

NoGenerator ==
    NewGenerator("None")

NoCall ==
    [op |-> "none"]

\* the process before any generator exists
NoProcess ==
    /\ AI_AVAILABLE = FALSE
    /\ qg = NoGenerator
    /\ pc = "none"
    /\ context_chunks = <<>>
    /\ config = <<>>
    /\ valid_contexts = <<>>
    /\ q_index = 1
    /\ i = 0
    /\ questions = <<>>
    /\ answer_key = <<>>
    /\ log = <<>>
    /\ last = NoIteration
    /\ last_op = [op |-> "none", model_name |-> "None", fail |-> "none"]

Init ==
    /\ NoProcess
    /\ rng \in RngStates
    /\ called = NoCall
    /\ NoService

CallIdle ==
    /\ context_chunks' = <<>>
    /\ config' = <<>>
    /\ valid_contexts' = <<>>
    /\ q_index' = 1
    /\ i' = 0
    /\ questions' = <<>>
    /\ answer_key' = <<>>
    /\ log' = <<>>
    /\ last' = NoIteration

\* QuestionGenerator(model_name)
Construct ==
    /\ pc \in {"none", "idle"}
    /\ \E model_name \in ModelNames, fail \in LoadSteps \cup {"none"} :
         /\ IF InitTakesModel(AI_AVAILABLE, model_name)
            THEN /\ qg' = load_ai_model(NewGenerator(model_name), fail)
                 /\ AI_AVAILABLE' = FlagAfterLoad(AI_AVAILABLE, fail)
            ELSE /\ qg' = use_rule_based(NewGenerator(model_name))
                 /\ UNCHANGED AI_AVAILABLE
         /\ last_op' = [op |-> "init", model_name |-> model_name, fail |-> fail]
    /\ pc' = "idle"
    /\ CallIdle
    /\ UNCHANGED <<rng, called, store_vars>>

\* _load_ai_model() called on a generator that exists
LoadAiModel ==
    /\ pc = "idle"
    /\ \E fail \in LoadSteps \cup {"none"} :
         /\ qg' = load_ai_model(qg, fail)
         /\ AI_AVAILABLE' = FlagAfterLoad(AI_AVAILABLE, fail)
         /\ last_op' = [op |-> "load", model_name |-> qg.model_name, fail |-> fail]
    /\ UNCHANGED <<rng, pc, context_chunks, config, valid_contexts, q_index, i,
                   questions, answer_key, log, last, called, store_vars>>

\* generate_questions up to the first iteration of the loops, lines 459-483
Call ==
    /\ pc = "idle"
    /\ \E chunks \in ChunkLists : \E cfg \in ConfigsFor(chunks) :
         LET valid == SelectSeq(chunks, IsValidContext)
             first == Pending(cfg, 1, 0)
         IN  /\ context_chunks' = chunks
             /\ config' = cfg
             /\ questions' = <<>>
             /\ answer_key' = <<>>
             /\ log' = <<>>
             /\ last' = NoIteration
             /\ IF chunks = <<>> \/ valid = <<>>
                THEN /\ pc' = "done"
                     /\ valid_contexts' = <<>>
                     /\ UNCHANGED <<q_index, i>>
                ELSE /\ valid_contexts' = valid
                     /\ IF first = <<>>
                        THEN pc' = "done" /\ UNCHANGED <<q_index, i>>
                        ELSE pc' = "loop" /\ q_index' = first[1] /\ i' = first[2]
    /\ last_op' = [op |-> "call", model_name |-> qg.model_name, fail |-> "none"]
    /\ UNCHANGED <<AI_AVAILABLE, rng, qg, called, store_vars>>

\* a variant whose counter runs on from one type to the next
ContextOfRunningCount ==
    valid_contexts[(Len(log) % Len(valid_contexts)) + 1]

\* context = valid_contexts[i % len(valid_contexts)]
Context ==
    valid_contexts[(i % Len(valid_contexts)) + 1]

\* what one iteration comes to: the candidate fails validation, scoring raises
\* (the exception reaches the except clause of line 563), or the question is appended
Outcome(question_text, q_type, raises) ==
    IF ~validate_question(question_text, q_type) THEN "rejected"
    ELSE IF raises THEN "raised"
    ELSE "emitted"

\* a variant whose except clause ends in break
NextIterationBreak(outcome) ==
    IF outcome = "raised" THEN Pending(config, q_index + 1, 0)
    ELSE Pending(config, q_index, i + 1)

\* the loops after one iteration: the except clause of line 563 ends in continue
NextIteration(outcome) ==
    Pending(config, q_index, i + 1)

QuestionsAfter(outcome, question_obj) ==
    IF outcome = "emitted" THEN Append(questions, question_obj) ELSE questions

\* a variant that appends to answer_key outside the if of validation
AnswerKeyAlways(outcome, entry) ==
    IF outcome = "raised" THEN answer_key ELSE Append(answer_key, entry)

AnswerKeyAfter(outcome, entry) ==
    IF outcome = "emitted" THEN Append(answer_key, entry) ELSE answer_key

\* config.get('difficulty', 3)
Difficulty ==
    ConfigGet(config, "difficulty", DefaultDifficulty)

\* the difficulty that _generate_ai_question is called with for the question of
\* a type: the one of the config for an MCQ (line 492), the literal of
\* _generate_<type>_from_context for the others (lines 392, 414, 429, 444)
DifficultyPassed(q_type) ==
    CASE q_type = "mcq" -> Difficulty
      [] q_type = "true_false" -> TrueFalseDifficulty
      [] q_type = "short_answer" -> ShortAnswerDifficulty
      [] q_type = "long_answer" -> LongAnswerDifficulty
      [] q_type = "hots" -> HotsDifficulty

\* temperature = 0.7 + (difficulty * 0.1) of line 237, in tenths; 0 when the
\* generator has no pipeline and the backend is not called
SamplingTemperature(q_type) ==
    IF qg.question_generator = "None" THEN 0 ELSE 7 + DifficultyPassed(q_type)

\* a variant in which a backend call that raises makes the generator rule-based
GeneratorAfterFallback(backend_raised) ==
    IF backend_raised # {} THEN use_rule_based(qg) ELSE qg

\* the generator after an iteration: neither _generate_ai_question, its except
\* clause included, nor generate_questions assigns to a field of self
GeneratorAfter(backend_raised) ==
    qg

\* the end of one iteration: the appends of the branch, then the loops move on
EndIteration(outcome, candidate, backend_raised, question_obj, entry) ==
    LET next == NextIteration(outcome)
    IN  /\ questions' = QuestionsAfter(outcome, question_obj)
        /\ answer_key' = AnswerKeyAfter(outcome, entry)
        /\ log' = Append(log, [type |-> QTypes[q_index], i |-> i, outcome |-> outcome])
        /\ last' = [type |-> QTypes[q_index], i |-> i, context |-> Context,
                    candidate |-> candidate, backend_raised |-> backend_raised,
                    outcome |-> outcome,
                    temperature |-> SamplingTemperature(QTypes[q_index])]
        /\ IF next = <<>>
           THEN pc' = "done" /\ UNCHANGED <<q_index, i>>
           ELSE pc' = "loop" /\ q_index' = next[1] /\ i' = next[2]
        /\ qg' = GeneratorAfter(backend_raised)
        /\ UNCHANGED <<AI_AVAILABLE, context_chunks, config, valid_contexts,
                       last_op, called, store_vars>>

\* history: the backend call `call` of this iteration raised
Raised(call, reply) ==
    IF reply = BackendRaises THEN {call} ELSE {}


\* one iteration with q_type == "mcq", lines 490-505
GenerateMcq ==
    /\ pc = "loop"
    /\ QTypes[q_index] = "mcq"
    /\ \E replies \in McqOutcomes, raises \in BOOLEAN :
         LET mcq == generate_mcq_from_context(Context, Difficulty,
                                              replies[1], replies[2], replies[3])
         IN  EndIteration(Outcome(mcq.question, "mcq", raises), mcq.question,
                          Raised("question", replies[1]) \cup Raised("distractors", replies[2])
                              \cup Raised("answer", replies[3]),
                          [type |-> "mcq", question |-> mcq.question,
                           options |-> mcq.options,
                           quality_score |-> score_question_quality(mcq.question, Context),
                           difficulty |-> Difficulty,
                           model_used |-> qg.model_name],
                          [question |-> mcq.question, answer |-> mcq.correct_answer])
    /\ rng' = RngAfter(rng, NumDistractors)

\* one iteration with q_type == "true_false", lines 507-519
GenerateTrueFalse ==
    /\ pc = "loop"
    /\ QTypes[q_index] = "true_false"
    /\ \E reply \in Outcomes(QuestionReplies), raises \in BOOLEAN :
         LET tf == generate_true_false_from_context(Context, reply)
         IN  EndIteration(Outcome(tf.question, "true_false", raises), tf.question,
                          Raised("question", reply),
                          [type |-> "true_false", question |-> tf.question,
                           quality_score |-> score_question_quality(tf.question, Context),
                           difficulty |-> Difficulty, model_used |-> qg.model_name],
                          [question |-> tf.question, answer |-> StrBool(tf.answer)])
    /\ UNCHANGED rng

\* one iteration with q_type == "short_answer", lines 521-533
GenerateShortAnswer ==
    /\ pc = "loop"
    /\ QTypes[q_index] = "short_answer"
    /\ \E reply \in Outcomes(QuestionReplies), raises \in BOOLEAN :
         LET question_text == generate_short_answer_from_context(Context, reply)
         IN  EndIteration(Outcome(question_text, "short_answer", raises), question_text,
                          Raised("question", reply),
                          [type |-> "short_answer", question |-> question_text,
                           quality_score |-> score_question_quality(question_text, Context),
                           difficulty |-> Difficulty, model_used |-> qg.model_name],
                          [question |-> question_text, answer |-> ShortAnswerKey])
    /\ UNCHANGED rng

\* one iteration with q_type == "long_answer", lines 535-547
GenerateLongAnswer ==
    /\ pc = "loop"
    /\ QTypes[q_index] = "long_answer"
    /\ \E reply \in Outcomes(QuestionReplies), raises \in BOOLEAN :
         LET question_text == generate_long_answer_from_context(Context, reply)
         IN  EndIteration(Outcome(question_text, "long_answer", raises), question_text,
                          Raised("question", reply),
                          [type |-> "long_answer", question |-> question_text,
                           quality_score |-> score_question_quality(question_text, Context),
                           difficulty |-> Difficulty, model_used |-> qg.model_name],
                          [question |-> question_text, answer |-> LongAnswerKey])
    /\ UNCHANGED rng

\* one iteration with q_type == "hots", lines 549-561
GenerateHots ==
    /\ pc = "loop"
    /\ QTypes[q_index] = "hots"
    /\ \E reply \in Outcomes(QuestionReplies), raises \in BOOLEAN :
         LET question_text == generate_hots_from_context(Context, reply)
         IN  EndIteration(Outcome(question_text, "hots", raises), question_text,
                          Raised("question", reply),
                          [type |-> "hots", question |-> question_text,
                           quality_score |-> score_question_quality(question_text, Context),
                           difficulty |-> Difficulty, model_used |-> qg.model_name],
                          [question |-> question_text, answer |-> HotsAnswerKey])
    /\ UNCHANGED rng

\* the caller takes the result of generate_questions
Return ==
    /\ pc = "done"
    /\ pc' = "idle"
    /\ CallIdle
    /\ UNCHANGED <<AI_AVAILABLE, rng, qg, last_op, called, store_vars>>

Next ==
    \/ Construct
    \/ LoadAiModel
    \/ Call
    \/ GenerateMcq
    \/ GenerateTrueFalse
    \/ GenerateShortAnswer
    \/ GenerateLongAnswer
    \/ GenerateHots
    \/ Return

Spec ==
    Init /\ [][Next]_vars


\* ------------------------------------------------- calls outside the generator

\* the variables of the generator and of generate_questions
generator_vars ==
    <<AI_AVAILABLE, rng, qg, pc, context_chunks, config, valid_contexts,
      q_index, i, questions, answer_key, log, last, last_op>>

\* " ".join(words)
RECURSIVE Join(_)
Join(words) ==
    IF words = <<>> THEN <<>>
    ELSE IF Len(words) = 1 THEN words[1]
    ELSE words[1] \o <<" ">> \o Join(Tail(words))

\* a text of n words: `first`, then fillers
WordsOf(first, n) ==
    [p \in 1..(Len(first) + 2 * (n - 1)) |->
        IF p <= Len(first) THEN first[p]
        ELSE IF (p - Len(first)) % 2 = 1 THEN " " ELSE "x"]

\* ------------------------------------------------------------------ scoring

\* the first words of the questions that are scored: an interrogative, one in
\* capitals, a word that holds one, a word that holds none
FirstWords ==
    { <<"w","h","a","t">>, <<"E","x","p","l","a","i","n">>,
      <<"s","o","m","e","h","o","w">>, <<"s","o">> }

\* the numbers of words of the questions that are scored
WordCounts ==
    {1, 9, 10, 19, 20, 100, 101, 150, 151}

ScoredQuestions ==
    {WordsOf(first, n) : first \in FirstWords, n \in WordCounts}

ScoredContexts ==
    { <<"x"," ","y">>, <<"X"," ","W","h","a","t">>, <<"s","o"," ","x">> }

\* _score_question_quality(question, context) called on its own
ScoreQuestion ==
    /\ called = NoCall
    /\ \E question \in ScoredQuestions, context \in ScoredContexts :
         called' = [op |-> "score", question |-> question, context |-> context,
                    result |-> score_question_quality(question, context)]
    /\ UNCHANGED <<generator_vars, store_vars>>

\* --------------------------------------------------------------- _clean_text

\* characters outside ASCII: one that NFKD decomposes into a letter and a mark, one
\* that it maps to a space, one that it leaves alone
EAcute ==
    "<e-acute>"

NoBreakSpace ==
    "<nbsp>"

Arrow ==
    "<arrow>"

\* unicodedata.normalize('NFKD', c).encode('ascii', 'ignore') of one character
FoldChar(c) ==
    IF c = EAcute THEN "e"
    ELSE IF c = NoBreakSpace THEN " "
    ELSE IF c = Arrow THEN Dropped
    ELSE c

AsciiFold(text) ==
    IF text = <<>> THEN <<>>
    ELSE SelectSeq([k \in 1..Len(text) |-> FoldChar(text[k])], IsKept)

\* '  This is a   test.\n\nIt has extra    spaces and\ttabs. Visit http://example.com.  '
TestRawText ==
    <<" "," ","T","h","i","s"," ","i","s"," ","a"," "," "," ","t","e","s","t",".","\n","\n",
      "I","t"," ","h","a","s"," ","e","x","t","r","a"," "," "," "," ","s","p","a","c","e",
      "s"," ","a","n","d","\t","t","a","b","s","."," ","V","i","s","i","t"," ","h","t","t",
      "p",":","/","/","e","x","a","m","p","l","e",".","c","o","m","."," "," ">>

\* 'Visit .'
VisitPeriod ==
    <<"V","i","s","i","t"," ",".">>

\* 'http'
Http ==
    <<"h","t","t","p">>

\* 'This is a test. It has extra spaces and tabs. Visit'
TestCleaned ==
    <<"T","h","i","s"," ","i","s"," ","a"," ","t","e","s","t","."," ","I","t"," ","h","a",
      "s"," ","e","x","t","r","a"," ","s","p","a","c","e","s"," ","a","n","d"," ","t","a",
      "b","s","."," ","V","i","s","i","t">>

\* "http" stands at place s and a character that is no whitespace follows it
UrlStartsAt(text, s) ==
    /\ s + Len(Http) <= Len(text)
    /\ SubSeq(text, s, s + Len(Http) - 1) = Http
    /\ ~IsSpace(text[s + Len(Http)])

\* the place k lies in a match of http\S+ : a match starts at or before k and no
\* whitespace stands between its start and k
InUrl(text, k) ==
    \E s \in 1..k : UrlStartsAt(text, s) /\ \A n \in s..k : ~IsSpace(text[n])

\* re.sub(r'http\S+', '', text)
RemoveUrls(text) ==
    IF text = <<>> THEN <<>>
    ELSE SelectSeq([k \in 1..Len(text) |-> IF InUrl(text, k) THEN Dropped ELSE text[k]],
                   IsKept)

IsBreak(c) ==
    c \in {"\n", "\t"}

\* re.sub(r'[\n\t]+', ' ', text)
ReplaceBreaks(text) ==
    IF text = <<>> THEN <<>>
    ELSE SelectSeq([k \in 1..Len(text) |->
                       IF ~IsBreak(text[k]) THEN text[k]
                       ELSE IF k > 1 /\ IsBreak(text[k - 1]) THEN Dropped
                       ELSE " "],
                   IsKept)

\* re.sub(r'\s{2,}', ' ', text): a run of two or more whitespace characters becomes
\* one space, a whitespace character that stands alone stays
CollapseRuns(text) ==
    IF text = <<>> THEN <<>>
    ELSE SelectSeq([k \in 1..Len(text) |->
                       IF ~IsSpace(text[k]) THEN text[k]
                       ELSE IF k > 1 /\ IsSpace(text[k - 1]) THEN Dropped
                       ELSE IF k < Len(text) /\ IsSpace(text[k + 1]) THEN " "
                       ELSE text[k]],
                   IsKept)

\* a variant that removes the URLs after the whitespace is dealt with
clean_text_urls_last(text) ==
    RemoveUrls(Strip(CollapseRuns(ReplaceBreaks(AsciiFold(text)))))

\* TextProcessor._clean_text
clean_text(text) ==
    Strip(CollapseRuns(ReplaceBreaks(RemoveUrls(AsciiFold(text)))))

\* the pieces the texts to clean are put together from
CleanPieces ==
    { Http, <<"h","t">>, <<"t","p">>, <<":","x">>, <<" ">>, <<"\n">>, <<"\t">>,
      <<Arrow>>, <<EAcute>>, <<NoBreakSpace>>, <<".">> }

\* the largest number of pieces of a text
MaxPieces ==
    3

RECURSIVE Flatten(_)
Flatten(pieces) ==
    IF pieces = <<>> THEN <<>> ELSE Head(pieces) \o Flatten(Tail(pieces))

CleanTexts ==
    {TestRawText}
        \cup UNION {{Flatten(ps) : ps \in [1..n -> CleanPieces]} : n \in 0..MaxPieces}

\* _clean_text(text) called on its own; `again` is what cleaning the result returns
CleanText ==
    /\ called = NoCall
    /\ \E text \in CleanTexts :
         LET result == clean_text(text)
         IN  called' = [op |-> "clean", text |-> text, result |-> result,
                        again |-> clean_text(result)]
    /\ UNCHANGED <<generator_vars, store_vars>>

\* ------------------------------------------------------------ split_into_chunks

\* the characters that end a sentence
Terminators ==
    {".", "?", "!"}

\* the characters word_tokenize makes a token of its own
Separators ==
    {".", "?", "!", ","}

\* a sentence ends at place k: a terminator that whitespace or the end follows
IsSentenceEnd(text, k) ==
    /\ text[k] \in Terminators
    /\ k = Len(text) \/ IsSpace(text[k + 1])

\* nltk's sent_tokenize, simplified: the text is cut after every terminator that
\* whitespace follows, and every piece is trimmed
RECURSIVE SentencesFrom(_, _)
SentencesFrom(text, start) ==
    IF start > Len(text) THEN <<>>
    ELSE LET ends == {k \in start..Len(text) : IsSentenceEnd(text, k)}
             stop == IF ends = {} THEN Len(text)
                     ELSE CHOOSE k \in ends : \A n \in ends : k <= n
             sentence == Strip(SubSeq(text, start, stop))
         IN  (IF sentence = <<>> THEN <<>> ELSE <<sentence>>)
                 \o SentencesFrom(text, stop + 1)

sent_tokenize(text) ==
    SentencesFrom(text, 1)

\* a token starts at place k
IsTokenStart(text, k) ==
    /\ ~IsSpace(text[k])
    /\ \/ k = 1
       \/ IsSpace(text[k - 1])
       \/ text[k - 1] \in Separators
       \/ text[k] \in Separators

\* the last place of the token that starts at place k
TokenEnd(text, k) ==
    IF text[k] \in Separators THEN k
    ELSE CHOOSE j \in k..Len(text) :
            /\ \A n \in k..j : ~IsSpace(text[n]) /\ text[n] \notin Separators
            /\ j = Len(text) \/ IsSpace(text[j + 1]) \/ text[j + 1] \in Separators

\* the n-th smallest member of a set of numbers
Nth(S, n) ==
    CHOOSE k \in S : Cardinality({m \in S : m < k}) = n - 1

\* nltk's word_tokenize, simplified: the words between whitespace, every
\* separator a token of its own
word_tokenize(text) ==
    LET starts == {k \in 1..Len(text) : IsTokenStart(text, k)}
    IN  [n \in 1..Cardinality(starts) |->
            SubSeq(text, Nth(starts, n), TokenEnd(text, Nth(starts, n)))]

\* a variant of the test of line 163 that leaves the current chunk out
FitsAlone(current_chunk_tokens, sentence_tokens, chunk_size) ==
    Len(sentence_tokens) <= chunk_size

\* a variant of the test of line 163 that starts a new chunk when the sentence
\* would fill the current one to just chunk_size
FitsBelow(current_chunk_tokens, sentence_tokens, chunk_size) ==
    Len(current_chunk_tokens) + Len(sentence_tokens) < chunk_size

\* line 163: the sentence fits into the current chunk
Fits(current_chunk_tokens, sentence_tokens, chunk_size) ==
    Len(current_chunk_tokens) + Len(sentence_tokens) <= chunk_size

\* a variant that drops the current chunk
NotFlushed(current_chunk_tokens, chunks) ==
    chunks

\* lines 167-168 and 175-176: the current chunk is added unless it is empty
Flushed(current_chunk_tokens, chunks) ==
    IF current_chunk_tokens # <<>> THEN Append(chunks, Join(current_chunk_tokens))
    ELSE chunks

\* the loop of lines 159-172 and the last chunk of lines 175-176
RECURSIVE ChunkLoop(_, _, _, _)
ChunkLoop(sentences, chunk_size, current_chunk_tokens, chunks) ==
    IF sentences = <<>> THEN Flushed(current_chunk_tokens, chunks)
    ELSE LET sentence_tokens == word_tokenize(Head(sentences))
         IN  IF Fits(current_chunk_tokens, sentence_tokens, chunk_size)
             THEN ChunkLoop(Tail(sentences), chunk_size,
                            current_chunk_tokens \o sentence_tokens, chunks)
             ELSE ChunkLoop(Tail(sentences), chunk_size, sentence_tokens,
                            Flushed(current_chunk_tokens, chunks))

\* TextProcessor.split_into_chunks, of a processor with the given chunk_size
split_into_chunks(text, chunk_size) ==
    IF text = <<>> THEN <<>>
    ELSE ChunkLoop(sent_tokenize(text), chunk_size, <<>>, <<>>)

\* the sentences the texts to split are put together from: of 2, 4, 3 and 6
\* tokens, and one without a terminator
SentencePool ==
    { <<"a",".">>,
      <<"b"," ","c"," ","d",".">>,
      <<"e"," ","f","?">>,
      <<"g"," ","h",","," ","i"," ","j","!">>,
      <<"k"," ","l">> }

\* the largest number of sentences of a text
MaxSentences ==
    3

\* the sentences of a text, a space between them
SplitTexts ==
    UNION {{Join(ss) : ss \in [1..n -> SentencePool]} : n \in 0..MaxSentences}

ChunkSizes ==
    {0, 1, 2, 3, 5, 6, 9, 512}

\* TextProcessor(chunk_size = n).split_into_chunks(text) called on its own
SplitIntoChunks ==
    /\ called = NoCall
    /\ \E text \in SplitTexts, chunk_size \in ChunkSizes :
         called' = [op |-> "split", text |-> text, chunk_size |-> chunk_size,
                    chunks |-> split_into_chunks(text, chunk_size)]
    /\ UNCHANGED <<generator_vars, store_vars>>

\* --------------------------------------------------------- extract_key_concepts

Digits ==
    {"0", "1", "2", "3", "4", "5", "6", "7", "8", "9"}

\* str.isalnum()
IsAlnum(word) ==
    /\ word # <<>>
    /\ \A k \in 1..Len(word) :
          word[k] \in Digits \/ word[k] \in DOMAIN ToUpper \/ word[k] \in DOMAIN ToLower

\* some of the English stop words of nltk's list
StopWords ==
    { <<"t","h","e">>,
      <<"a","n","d">>,
      <<"a">>,
      <<"a","n">>,
      <<"i","s">> }

\* the greatest length that is too short for a concept
MaxShortWord ==
    2

\* a variant of the filter that keeps the words of two characters
IsConceptWordOfTwo(word) ==
    Lower(word) \notin StopWords /\ Len(word) >= MaxShortWord /\ IsAlnum(word)

\* the filter of line 195
IsConceptWord(word) ==
    Lower(word) \notin StopWords /\ Len(word) > MaxShortWord /\ IsAlnum(word)

\* word_counts[word] of lines 199-201
WordCount(filtered_words, word) ==
    Cardinality({k \in 1..Len(filtered_words) : filtered_words[k] = word})

\* the place where a word is first met: its place in the order of the dict's keys
FirstPlace(filtered_words, word) ==
    CHOOSE k \in 1..Len(filtered_words) :
        /\ filtered_words[k] = word
        /\ \A n \in 1..(k - 1) : filtered_words[n] # word

\* the place of a word in sorted(word_counts.items(), key = count, reverse = True):
\* the words of a greater count come before it, and so do the words of the same
\* count that were met earlier, the sort being stable
SortedPlace(filtered_words, word) ==
    1 + Cardinality({k \in 1..Len(filtered_words) :
                        /\ FirstPlace(filtered_words, filtered_words[k]) = k
                        /\ \/ WordCount(filtered_words, filtered_words[k])
                                 > WordCount(filtered_words, word)
                           \/ /\ WordCount(filtered_words, filtered_words[k])
                                    = WordCount(filtered_words, word)
                              /\ k < FirstPlace(filtered_words, word)})

\* sorted_words of line 204, the words only
SortedWords(filtered_words) ==
    LET keys == {filtered_words[k] : k \in 1..Len(filtered_words)}
    IN  [n \in 1..Cardinality(keys) |->
            CHOOSE word \in keys : SortedPlace(filtered_words, word) = n]

\* TextProcessor.extract_key_concepts
extract_key_concepts(text, num_concepts) ==
    IF text = <<>> THEN <<>>
    ELSE LET words == word_tokenize(Lower(text))
             filtered_words == SelectSeq(words, IsConceptWord)
         IN  Slice(SortedWords(filtered_words), num_concepts)

\* the words the texts to extract from are put together from
WordPool ==
    { <<"t","h","e">>,
      <<"C","a","t">>,
      <<"c","a","t">>,
      <<"d","o","g",".">>,
      <<"c","o","-","o","p">>,
      <<"o","x">>,
      <<"x","1","y">> }

\* the largest number of words of a text
MaxWords ==
    3

\* 'The dog and the cat. A Cat, the co-op, an ox and the cat! Bird x1y.'
ConceptText ==
    <<"T","h","e"," ","d","o","g"," ","a","n","d"," ","t","h","e"," ","c","a","t","."," ",
      "A"," ","C","a","t",","," ","t","h","e"," ","c","o","-","o","p",","," ","a","n"," ",
      "o","x"," ","a","n","d"," ","t","h","e"," ","c","a","t","!"," ","B","i","r","d"," ",
      "x","1","y",".">>

ConceptTexts ==
    {ConceptText}
        \cup UNION {{Join(ws) : ws \in [1..n -> WordPool]} : n \in 0..MaxWords}

NumConcepts ==
    {0, 1, 2, 3, 10}

\* extract_key_concepts(text, num_concepts) called on its own
ExtractKeyConcepts ==
    /\ called = NoCall
    /\ \E text \in ConceptTexts, num_concepts \in NumConcepts :
         called' = [op |-> "concepts", text |-> text, num_concepts |-> num_concepts,
                    result |-> extract_key_concepts(text, num_concepts)]
    /\ UNCHANGED <<generator_vars, store_vars>>

\* ---------------------------------------------------------------- _validate_file

\* str.rfind(c), counted from 1: 0 when the character is not there
RFind(s, c) ==
    LET at == {k \in 1..Len(s) : s[k] = c}
    IN  IF at = {} THEN 0 ELSE CHOOSE k \in at : \A n \in at : k >= n

\* os.path.splitext(p)[1]: the text from the last dot on, when the dot comes after
\* the last separator and a character other than a dot stands before it in the name
splitext_ext(p) ==
    LET sepIndex == RFind(p, "/")
        dotIndex == RFind(p, ".")
    IN  IF dotIndex > sepIndex
              /\ \E filenameIndex \in (sepIndex + 1)..(dotIndex - 1) :
                     p[filenameIndex] # "."
        THEN SubSeq(p, dotIndex, Len(p))
        ELSE <<>>

ExtPdf ==
    <<".", "p", "d", "f">>

ExtDocx ==
    <<".", "d", "o", "c", "x">>

\* self.allowed_extensions
allowed_extensions ==
    {ExtPdf, ExtDocx}

\* self.max_file_size_bytes of a processor made with max_file_size_mb
max_file_size_bytes(max_file_size_mb) ==
    max_file_size_mb * 1024 * 1024

\* a variant of the test of line 83 that refuses a file of just the budget
IsTooLargeAtBudget(file_size, max_bytes) ==
    file_size >= max_bytes

\* line 83
IsTooLarge(file_size, max_bytes) ==
    file_size > max_bytes

\* line 72
ExtensionOf(filename) ==
    Lower(splitext_ext(filename))

\* TextProcessor._validate_file: what it raises, and the stream as it leaves it.
\* A stream is its length in bytes, its position, whether a parser fails on it,
\* and the texts of its pages or paragraphs.
validate_file(file, filename, max_bytes) ==
    IF ExtensionOf(filename) \notin allowed_extensions
    THEN [raised |-> "invalid_type", file |-> file]
    ELSE LET file_size == file.size
             rewound == [file EXCEPT !.pos = 0]
         IN  IF IsTooLarge(file_size, max_bytes)
             THEN [raised |-> "too_large", file |-> rewound]
             ELSE [raised |-> "none", file |-> rewound]

Filenames ==
    { <<"a",".","p","d","f">>,
      <<"a",".","P","D","F">>,
      <<"a",".","d","o","c","x">>,
      <<"a",".","D","o","c","x">>,
      <<".","p","d","f">>,
      <<"a",".","p","d","f",".","t","x","t">>,
      <<"a",".","t","x","t",".","p","d","f">>,
      <<"a">>,
      <<"a",".","b","/","p","d","f">>,
      <<".",".","p","d","f">>,
      <<"a",".","d","o","c">>,
      <<"a",".","d","o","c","x"," ">>,
      <<"x","/",".","d","o","c","x">>,
      <<"a",".">>,
      <<"b","/","a",".","p","d","f">> }

MaxFileSizesMb ==
    {0, 1, 10}

\* the lengths of the streams, about the budget of max_file_size_mb
FileSizes(max_file_size_mb) ==
    {0, 1} \cup {max_file_size_bytes(max_file_size_mb) + d : d \in {0, 1}}
           \cup {max_file_size_bytes(max_file_size_mb) - d : d \in {1} \cap (1..max_file_size_bytes(max_file_size_mb))}

\* TextProcessor(max_file_size_mb = n)._validate_file(file, filename) called on
\* its own, the stream at its start or at its end
ValidateFile ==
    /\ called = NoCall
    /\ \E filename \in Filenames, max_file_size_mb \in MaxFileSizesMb :
         \E size \in FileSizes(max_file_size_mb) : \E pos \in {0, size} :
            LET file == [size |-> size, pos |-> pos, corrupt |-> FALSE, parts |-> <<>>]
                done == validate_file(file, filename, max_file_size_bytes(max_file_size_mb))
            IN  called' = [op |-> "validate", filename |-> filename,
                           max_file_size_mb |-> max_file_size_mb, file |-> file,
                           raised |-> done.raised, file_after |-> done.file]
    /\ UNCHANGED <<generator_vars, store_vars>>

\* ------------------------------------------------------------------ process_files

\* lines 95-103: the texts of the pages that have one, a newline after each
RECURSIVE PagesText(_)
PagesText(pages) ==
    IF pages = <<>> THEN <<>>
    ELSE (IF Head(pages) # <<>> THEN Head(pages) \o <<"\n">> ELSE <<>>)
             \o PagesText(Tail(pages))

\* "\n".join(paragraphs) of line 115
RECURSIVE ParagraphsText(_)
ParagraphsText(paragraphs) ==
    IF paragraphs = <<>> THEN <<>>
    ELSE IF Len(paragraphs) = 1 THEN paragraphs[1]
    ELSE paragraphs[1] \o <<"\n">> \o ParagraphsText(Tail(paragraphs))

\* TextProcessor._extract_text_from_pdf: whatever the parser raises becomes an
\* IOError
extract_text_from_pdf(file_stream) ==
    IF file_stream.corrupt THEN [raised |-> "pdf_unreadable", text |-> <<>>]
    ELSE [raised |-> "none", text |-> PagesText(file_stream.parts)]

\* TextProcessor._extract_text_from_docx
extract_text_from_docx(file_stream) ==
    IF file_stream.corrupt THEN [raised |-> "docx_unreadable", text |-> <<>>]
    ELSE [raised |-> "none", text |-> ParagraphsText(file_stream.parts)]

\* num_concepts of extract_key_concepts when it is not given
DefaultNumConcepts ==
    10

\* the entry of lines 264-267; the message is told by the error it is the text of
ErrorEntry(message) ==
    [status |-> "error", message |-> message]

\* the body of the loop of process_files, lines 227-267: the entry of one file
ProcessOne(file_stream, filename, max_bytes, chunk_size) ==
    LET valid == validate_file(file_stream, filename, max_bytes)
        ext == ExtensionOf(filename)
        extracted == IF ext = ExtPdf THEN extract_text_from_pdf(valid.file)
                     ELSE IF ext = ExtDocx THEN extract_text_from_docx(valid.file)
                     ELSE [raised |-> "none", text |-> <<>>]
        raw_text == extracted.text
        cleaned_text == clean_text(raw_text)
    IN  IF valid.raised # "none" THEN ErrorEntry(valid.raised)
        ELSE IF extracted.raised # "none" THEN ErrorEntry(extracted.raised)
        ELSE IF Strip(raw_text) = <<>> THEN ErrorEntry("no_text")
        ELSE [status |-> "success",
              raw_text |-> raw_text,
              cleaned_text |-> cleaned_text,
              chunks |-> split_into_chunks(cleaned_text, chunk_size),
              key_concepts |-> extract_key_concepts(cleaned_text, DefaultNumConcepts)]

\* results[filename] = entry
Assigned(results, filename, entry) ==
    [name \in DOMAIN results \cup {filename} |->
        IF name = filename THEN entry ELSE results[name]]

\* the loop of line 226
RECURSIVE ProcessLoop(_, _, _, _)
ProcessLoop(files, results, max_bytes, chunk_size) ==
    IF files = <<>> THEN results
    ELSE ProcessLoop(Tail(files),
                     Assigned(results, Head(files).filename,
                              ProcessOne(Head(files).file, Head(files).filename,
                                         max_bytes, chunk_size)),
                     max_bytes, chunk_size)

\* TextProcessor.process_files: the dict it returns, a function of the filenames
process_files(files, max_bytes, chunk_size) ==
    ProcessLoop(files, [name \in {} |-> ErrorEntry("none")], max_bytes, chunk_size)

\* max_file_size_mb and chunk_size of a processor made without arguments
DefaultMaxFileSizeMb ==
    10

DefaultChunkSize ==
    512

NamePdf ==
    <<"a",".","p","d","f">>

NameDocx ==
    <<"b",".","d","o","c","x">>

NameText ==
    <<"a",".","t","x","t">>

\* the (stream, filename) pairs of the calls: a PDF of two pages with text and one
\* without, a PDF the parser fails on, a PDF of two scanned pages that have no
\* text, a PDF over the budget, a DOCX of two paragraphs, a DOCX with nothing but
\* a space in it, a DOCX of a URL and an arrow, and a text file
FilePairs ==
    { [file |-> [size |-> 100, pos |-> 0, corrupt |-> FALSE,
                 parts |-> << <<"T","h","e"," ","C","a","t"," "," ","s","a","t",".">>,
                              <<>>,
                              <<"A"," ","c","a","t","\t","s","a","w"," ","h","t","t","p",":","/","/","x",".","y"," ",
      "t","h","e"," ","d","o","g",".">> >>],
       filename |-> NamePdf],
      [file |-> [size |-> 7, pos |-> 0, corrupt |-> TRUE, parts |-> <<>>],
       filename |-> NamePdf],
      [file |-> [size |-> 90, pos |-> 0, corrupt |-> FALSE, parts |-> << <<>>, <<>> >>],
       filename |-> NamePdf],
      [file |-> [size |-> max_file_size_bytes(DefaultMaxFileSizeMb) + 1, pos |-> 0,
                 corrupt |-> FALSE, parts |-> << <<"T","h","e"," ","C","a","t"," "," ","s","a","t",".">> >>],
       filename |-> NamePdf],
      [file |-> [size |-> 50, pos |-> 0, corrupt |-> FALSE,
                 parts |-> << <<"D","o","g","s"," ","b","a","r","k","."," ">>,
                              <<"C","a","t","s"," ","d","o"," ","n","o","t","!">> >>],
       filename |-> NameDocx],
      [file |-> [size |-> 20, pos |-> 0, corrupt |-> FALSE, parts |-> << <<" ">> >>],
       filename |-> NameDocx],
      [file |-> [size |-> 30, pos |-> 0, corrupt |-> FALSE,
                 parts |-> << <<"h","t","t","p",":","/","/","x",".","y">>,
                              <<Arrow>> >>],
       filename |-> NameDocx],
      [file |-> [size |-> 5, pos |-> 0, corrupt |-> FALSE, parts |-> <<>>],
       filename |-> NameText] }

\* the largest number of files of a call
MaxFiles ==
    2

FileLists ==
    UNION {[1..n -> FilePairs] : n \in 0..MaxFiles}

\* TextProcessor(chunk_size = n).process_files(files)
ProcessFiles ==
    /\ called = NoCall
    /\ \E files \in FileLists, chunk_size \in {3, DefaultChunkSize} :
         called' = [op |-> "process", files |-> files, chunk_size |-> chunk_size,
                    results |-> process_files(files,
                                              max_file_size_bytes(DefaultMaxFileSizeMb),
                                              chunk_size)]
    /\ UNCHANGED <<generator_vars, store_vars>>

\* ------------------------------------------------------------------ token_required

\* the routes of routes.py that token_required wraps, and the one it does not
WrappedEndpoints ==
    {"upload", "generate", "questions", "delete", "export"}

Endpoints ==
    WrappedEndpoints \cup {"health"}

\* request.headers['Authorization'] of the requests; NoneValue stands for a
\* request without the header
AuthorizationHeaders ==
    { NoneValue,
      <<>>,
      <<"B","e","a","r","e","r">>,
      <<"B","e","a","r","e","r"," ">>,
      <<"B","e","a","r","e","r"," ","t","o","k">>,
      <<"B","e","a","r","e","r"," "," ","t","o","k">>,
      <<"B","a","s","i","c"," ","t","o","k">>,
      <<"t","o","k">>,
      <<" ","t","o","k">> }

\* what auth.verify_id_token does with a token: returns, or raises
\* ExpiredIdTokenError, InvalidIdTokenError or something else
VerifyOutcomes ==
    {"ok", "expired", "invalid", "error"}

\* auth.verify_id_token(token): a token that is empty or no string is refused
\* with a ValueError before anything is verified
verify_id_token(token, outcome) ==
    IF token = NoneValue \/ token = <<>> THEN "error" ELSE outcome

\* the statuses a route handler answers with
HandlerStatuses ==
    {200, 400, 500}

\* the response of the decorator itself: jsonify({"error": ...}), status
Refused(status) ==
    [status |-> status, error |-> TRUE, handler_ran |-> FALSE]

\* f(current_user, *args, **kwargs) of line 46
Handled(handler_status) ==
    [status |-> handler_status, error |-> handler_status # 200, handler_ran |-> TRUE]

\* a variant of the test of lines 33-43 that lets an expired token through
VerifiedOrExpired(verified) ==
    verified \in {"ok", "expired"}

\* lines 33-34: verify_id_token returned
Verified(verified) ==
    verified = "ok"

\* decorated_function, lines 17-46, for a request with the given header; the
\* fields verify_called and token tell whether and with what verify_id_token was
\* called
decorated_function(header, outcome, handler_status) ==
    LET parts == IF header = NoneValue THEN <<>> ELSE Split(header, " ")
        token == IF header = NoneValue THEN NoneValue
                 ELSE IF Len(parts) >= 2 THEN parts[2]
                 ELSE NoneValue
        none == [verify_called |-> FALSE, token |-> NoneValue]
        verified == verify_id_token(token, outcome)
        tried == [verify_called |-> TRUE, token |-> token]
    IN  IF header # NoneValue /\ Len(parts) < 2 THEN Refused(401) @@ none
        ELSE IF token = NoneValue \/ token = <<>> THEN Refused(401) @@ none
        ELSE IF Verified(verified) THEN Handled(handler_status) @@ tried
        ELSE IF verified \in {"expired", "invalid"} THEN Refused(401) @@ tried
        ELSE Refused(500) @@ tried

\* a request to one of the routes
Request ==
    /\ called = NoCall
    /\ \E endpoint \in Endpoints, header \in AuthorizationHeaders,
          outcome \in VerifyOutcomes, handler_status \in HandlerStatuses :
         called' = [op |-> "request", endpoint |-> endpoint, header |-> header,
                    outcome |-> outcome,
                    response |-> IF endpoint \in WrappedEndpoints
                                 THEN decorated_function(header, outcome, handler_status)
                                 ELSE Handled(200)
                                          @@ [verify_called |-> FALSE, token |-> NoneValue]]
    /\ UNCHANGED <<generator_vars, store_vars>>

\* ------------------------------------------------------------ the second process

InitCalls ==
    /\ NoProcess
    /\ rng = 0
    /\ called = NoCall
    /\ NoService

\* the caller takes what the call returned
ReturnCall ==
    /\ called # NoCall
    /\ called' = NoCall
    /\ UNCHANGED <<generator_vars, store_vars>>

NextCalls ==
    \/ ScoreQuestion
    \/ CleanText
    \/ SplitIntoChunks
    \/ ExtractKeyConcepts
    \/ ValidateFile
    \/ ProcessFiles
    \/ Request
    \/ ReturnCall

SpecCalls ==
    InitCalls /\ [][NextCalls]_vars

\* ------------------------------------------------------ the question bank store

\* the questions array of a bank as save_question_bank stored it
StoredQuestions ==
    <<"Q0", "Q1">>

\* the bank documents a call may find under bank_id: none, one without questions,
\* one with the stored questions
Banks ==
    {NoBank,
     [exists |-> TRUE, questions |-> <<>>, updated_at |-> 0],
     [exists |-> TRUE, questions |-> StoredQuestions, updated_at |-> 0]}

\* the question_index arguments: below the array, in it, past its end
Indexes ==
    (0 - 1) .. Len(StoredQuestions)

\* the data arguments: the new question objects
NewQuestions ==
    {"A", "B"}

\* 0 <= question_index < len(questions)
InRange(question_index, list) ==
    0 <= question_index /\ question_index < Len(list)

\* questions[question_index] = data, on the list the call holds in memory
SetItem(list, question_index, data) ==
    [list EXCEPT ![question_index + 1] = data]

\* update_question is entered: without a client it raises ConnectionError, with
\* one it builds bank_ref
UpdateQuestion ==
    \E c \in Callers :
        /\ updates[c].pc = "idle"
        /\ \E question_index \in Indexes, data \in NewQuestions :
             updates' = [updates EXCEPT ![c] =
                 IF db
                 THEN [@ EXCEPT !.pc = "get", !.question_index = question_index,
                                !.data = data]
                 ELSE [@ EXCEPT !.pc = "raised", !.question_index = question_index,
                                !.data = data, !.raised = "ConnectionError"]]
        /\ UNCHANGED <<generator_vars, called, db, bank>>

\* doc = bank_ref.get(), then the work on the copy in memory: the checks of
\* doc.exists and of the index, and the assignment to questions[question_index]
Get ==
    \E c \in Callers :
        /\ updates[c].pc = "get"
        /\ LET call == updates[c]
           IN  updates' = [updates EXCEPT ![c] =
                 IF ~bank.exists
                 THEN [call EXCEPT !.pc = "raised", !.raised = "ValueError"]
                 ELSE IF InRange(call.question_index, bank.questions)
                 THEN [call EXCEPT !.pc = "update",
                                   !.questions = SetItem(bank.questions,
                                                         call.question_index, call.data),
                                   !.read_at = bank.updated_at]
                 ELSE [call EXCEPT !.pc = "raised", !.raised = "IndexError"]]
        /\ UNCHANGED <<generator_vars, called, db, bank>>

\* bank_ref.update({"questions": questions, "updated_at": ...}) writes the whole
\* list the call holds, and the call returns; updated_at counts the writes
Update ==
    \E c \in Callers :
        /\ updates[c].pc = "update"
        /\ bank' = [bank EXCEPT !.questions = updates[c].questions,
                                !.updated_at = @ + 1]
        /\ updates' = [updates EXCEPT ![c].pc = "returned"]
        /\ UNCHANGED <<generator_vars, called, db>>

\* FirebaseService() has run, with or without a client, and no call is in flight
InitBank ==
    /\ NoProcess
    /\ rng = 0
    /\ called = NoCall
    /\ db \in BOOLEAN
    /\ bank \in Banks
    /\ updates = [c \in Callers |-> NoUpdate]

NextBank ==
    \/ UpdateQuestion
    \/ Get
    \/ Update

SpecBank ==
    InitBank /\ [][NextBank]_vars

\* ---------------------------------------------------------------- properties

\* the generator has no pipeline: every generation call takes the rule-based branch
RuleBasedMode ==
    qg.question_generator = "None"

\* a generate_questions call that went through its loops has returned
Returned ==
    pc = "done" /\ valid_contexts # <<>>

Quota(t) ==
    ConfigGet(config, ConfigKeys[t], 0)

TotalQuota ==
    Quota(1) + Quota(2) + Quota(3) + Quota(4) + Quota(5)

IsEmitted(entry) ==
    entry.outcome = "emitted"

\* the iterations of the call that appended a question, in order
Emitted ==
    SelectSeq(log, IsEmitted)

OutcomesOfLog ==
    {log[k].outcome : k \in 1..Len(log)}

\* the conditions of validation, as the specification words them
PassesValidation(text) ==
    LET trimmed == Strip(text)
    IN  /\ text # NoneValue
        /\ Len(trimmed) >= 10
        /\ trimmed[Len(trimmed)] = "?"
        /\ Lower(trimmed) \notin {<<>>, <<"n","o","n","e">>, <<"e","r","r","o","r">>,
                                  <<"f","a","i","l","e","d">>}

Occurrences(options, text) ==
    Cardinality({j \in 1..Len(options) : options[j] = text})

\* C1: when generate_questions has returned, questions and answer_key have the
\* same length and answer_key[k].question = questions[k].question at every index,
\* whatever was rejected or raised on the way.
C1_AnswerKeyAligned ==
    pc = "done" =>
        /\ Len(questions) = Len(answer_key)
        /\ \A k \in 1..Len(questions) : answer_key[k].question = questions[k].question

\* a returned call in which one iteration was rejected and another emitted
C1_Witness ==
    /\ pc = "done"
    /\ RuleBasedMode
    /\ Len(questions) = 1
    /\ OutcomesOfLog = {"rejected", "emitted"}

\* C2: with a valid chunk and a rule-based generator, the number of questions of
\* each type equals the quota of the type (no iteration having raised), so the
\* total equals the sum of the quotas.
C2_QuotasMet ==
    (Returned /\ RuleBasedMode /\ "raised" \notin OutcomesOfLog) =>
        /\ \A t \in 1..Len(QTypes) :
              Cardinality({k \in 1..Len(questions) : questions[k].type = QTypes[t]})
                  = Quota(t)
        /\ Len(questions) = TotalQuota

\* C3: every MCQ question in the result has exactly 4 options and the answer of
\* its answer-key entry is one of them, in both modes.
C3_McqOptions ==
    \A k \in 1..Len(questions) :
        questions[k].type = "mcq" =>
            /\ Len(questions[k].options) = 4
            /\ \E j \in 1..4 : questions[k].options[j] = answer_key[k].answer

\* a model-mode MCQ whose distractors were padded with a placeholder
C3_Witness ==
    /\ ~RuleBasedMode
    /\ \E k \in 1..Len(questions) :
          /\ questions[k].type = "mcq"
          /\ \E j \in 1..4 : questions[k].options[j] = OptionWord \o <<"D">>

\* C4: the options of every MCQ question in the result contain the correct answer
\* exactly once.
C4_AnswerOnce ==
    \A k \in 1..Len(questions) :
        questions[k].type = "mcq" =>
            Occurrences(questions[k].options, answer_key[k].answer) = 1

\* C5: when the call has returned, every iteration the quotas ask for has run,
\* whatever raised on the way, and the result holds exactly what the iterations
\* that did not raise (and were not rejected) produced, in their order.
C5_RaiseSkipsOneIteration ==
    Returned =>
        /\ Len(log) = TotalQuota
        /\ \A t \in 1..Len(QTypes) :
              Cardinality({k \in 1..Len(log) : log[k].type = QTypes[t]}) = Quota(t)
        /\ Len(questions) = Len(Emitted)
        /\ Len(answer_key) = Len(Emitted)
        /\ \A k \in 1..Len(questions) : questions[k].type = Emitted[k].type

\* a returned call whose first iteration raised and whose second emitted
C5_Witness ==
    /\ pc = "done"
    /\ Len(log) = 2
    /\ log[1].outcome = "raised"
    /\ log[2].outcome = "emitted"
    /\ Len(questions) = 1

\* C6: in model mode, when the backend raises while a question is generated, the
\* candidate of the iteration is the rule-based one for the same context and type
\* and goes on to validation like any other candidate; when it raises while the
\* distractors of an MCQ are generated, the options are the answer and the
\* rule-based distractors.
C6_FallbackIsLocal ==
    (~RuleBasedMode /\ last.type # "none") =>
        /\ "question" \in last.backend_raised =>
              /\ last.candidate
                    = generate_rule_based_question(last.context, last.type, Difficulty)
              /\ last.type # "long_answer" => last.outcome # "rejected"
        /\ ("distractors" \in last.backend_raised /\ last.outcome = "emitted") =>
              {questions[Len(questions)].options[j] : j \in 1..4}
                  = {answer_key[Len(answer_key)].answer}
                        \cup {DistractorSecondary, DistractorUnrelated, DistractorNoneOfAbove}

\* a true/false iteration in model mode whose backend call raised and whose
\* rule-based candidate was emitted
C6_Witness ==
    /\ ~RuleBasedMode
    /\ last.type = "true_false"
    /\ last.backend_raised = {"question"}
    /\ last.candidate = TrueFalseQuestion
    /\ last.outcome = "emitted"

\* C7: a generator constructed with a model name other than 'rule-based', where
\* every step of loading succeeds, has the model and the pipeline loaded and keeps
\* its model name, the first generator of the process included.
C7_ModelStrategyAfterConstruction ==
    (last_op.op = "init" /\ last_op.model_name \in Pretrained /\ last_op.fail = "none") =>
        /\ qg.model # "None"
        /\ qg.question_generator # "None"
        /\ qg.model_name = last_op.model_name

\* C8: whatever step of loading fails, the generator that results is in rule-based
\* mode, and model_name = 'rule-based' holds exactly when no model, tokenizer and
\* pipeline are retained.
C8_FallbackRecorded ==
    pc # "none" =>
        /\ (qg.model_name = "rule-based")
              <=> (qg.model = "None" /\ qg.tokenizer = "None"
                     /\ qg.question_generator = "None")
        /\ (last_op.op \in {"init", "load"} /\ last_op.fail # "none") =>
              qg.model_name = "rule-based"

\* a construction that entered _load_ai_model and failed after the tokenizer
\* was loaded
C8_Witness ==
    /\ last_op = [op |-> "init", model_name |-> "t5-small", fail |-> "pipeline"]
    /\ qg.torch = "torch"
    /\ qg.model_name = "rule-based"

\* C9: when no chunk is given, or every chunk is empty, None or has a trimmed
\* length of at most 10, generate_questions returns empty lists and runs no
\* iteration, whatever the quotas.
C9_NoValidChunk ==
    (pc = "done" /\ \A k \in 1..Len(context_chunks) :
                       \/ context_chunks[k] = NoneValue
                       \/ context_chunks[k] = <<>>
                       \/ Len(Strip(context_chunks[k])) <= 10) =>
        /\ questions = <<>>
        /\ answer_key = <<>>
        /\ log = <<>>

\* a returned call with quotas whose chunks are all too short once trimmed
C9_Witness ==
    /\ pc = "done"
    /\ TotalQuota > 0
    /\ Len(context_chunks) = 5
    /\ context_chunks[4] = ChunkPadded

\* C10: every question in the result passes validation; a candidate that does not
\* is rejected, nothing is appended for it, and the loops still run every
\* iteration the quotas ask for.
C10_OnlyValidQuestions ==
    /\ \A k \in 1..Len(questions) : PassesValidation(questions[k].question)
    /\ (last.type # "none" /\ ~PassesValidation(last.candidate)) =>
          /\ last.outcome = "rejected"
          /\ Len(questions) = Len(Emitted)
    /\ (Returned /\ "rejected" \in OutcomesOfLog) => Len(log) = TotalQuota

\* a returned call in model mode whose first candidate was emitted and whose
\* second was rejected for its length
C10_Witness ==
    /\ pc = "done"
    /\ ~RuleBasedMode
    /\ Len(log) = 2
    /\ Len(questions) = 1
    /\ last.outcome = "rejected"
    /\ Len(last.candidate) < 10

\* ------------------------------------------------ properties of the other calls

\* the interrogative vocabulary, as the specification lists it
Interrogatives ==
    { <<"w","h","a","t">>, <<"w","h","o">>, <<"w","h","e","n">>, <<"w","h","e","r","e">>,
      <<"w","h","y">>, <<"h","o","w">>, <<"w","h","i","c","h">>,
      <<"e","x","p","l","a","i","n">>, <<"d","e","s","c","r","i","b","e">>,
      <<"c","o","m","p","a","r","e">> }

HasInterrogative(question) ==
    \E w \in Interrogatives : Contains(Lower(question), w)

\* the score the specification gives, in tenths
ExpectedScore(question, context) ==
    LET n == Cardinality(TokenStarts(question))
        shared == TokenSet(Lower(question)) \cap TokenSet(Lower(context))
    IN  5 + (IF HasInterrogative(question) THEN 2 ELSE 0)
          + (IF 20 <= n /\ n <= 100 THEN 2
             ELSE IF (10 <= n /\ n < 20) \/ (100 < n /\ n <= 150) THEN 1
             ELSE 0)
          + (IF Cardinality(shared) >= 2 THEN 1 ELSE 0)

\* C16: the quality score is 0.5, plus 0.2 for an interrogative word, plus 0.2 for
\* 20..100 tokens or else 0.1 for 10..19 or 101..150 tokens, plus 0.1 for two
\* shared lowercase tokens; it lies in [0.5, 1.0] and exceeds 0.5 when the
\* question holds an interrogative word.  (Scores are in tenths.)
C16_ScoreFormula ==
    called.op = "score" =>
        /\ called.result = ExpectedScore(called.question, called.context)
        /\ 5 <= called.result /\ called.result <= 10
        /\ HasInterrogative(called.question) => called.result > 5

\* a question of 20 words with an interrogative word and two tokens of the
\* context: every bonus applies
C16_Witness ==
    /\ called.op = "score"
    /\ called.question = WordsOf(<<"w","h","a","t">>, 20)
    /\ called.context = <<"X"," ","W","h","a","t">>
    /\ called.result = 10

\* C13: cleaning is idempotent: cleaning a cleaned text returns it unchanged.
C13_CleanIdempotent ==
    called.op = "clean" => called.again = called.result

\* the text of test_clean_text, whose cleaning removes a URL, replaces breaks,
\* collapses whitespace and trims, and whose cleaned text cleans to itself
C13_Witness ==
    /\ called.op = "clean"
    /\ called.text = TestRawText
    /\ called.result = TestCleaned
    /\ called.again = TestCleaned

\* C14: cleaning the text of test_clean_text, which ends in
\* 'Visit http://example.com.' and whitespace, yields a text that ends in 'Visit .'
C14_StopAfterUrlKept ==
    (called.op = "clean" /\ called.text = TestRawText) =>
        EndsWith(called.result, VisitPeriod)

\* the tokens of a chunk
TokensOf(chunk) ==
    Split(chunk, " ")

\* the tokens of all the sentences of a text, in order
TokenSequence(text) ==
    LET sentences == sent_tokenize(text)
    IN  Flatten([k \in 1..Len(sentences) |-> word_tokenize(sentences[k])])

C12_ChunkCoverage ==
    called.op = "split" =>
        /\ Flatten([c \in 1..Len(called.chunks) |-> TokensOf(called.chunks[c])])
              = TokenSequence(called.text)
        /\ \A c \in 1..Len(called.chunks) : called.chunks[c] # <<>>
        /\ called.text = <<>> => called.chunks = <<>>

\* a text of three sentences split into two chunks, the first of two sentences
C12_Witness ==
    /\ called.op = "split"
    /\ called.chunk_size = 6
    /\ Len(sent_tokenize(called.text)) = 3
    /\ Len(called.chunks) = 2
    /\ Len(TokensOf(called.chunks[1])) = 6
    /\ Len(TokensOf(called.chunks[2])) = 3

\* the number of tokens of the lowercased text that are the term
Frequency(text, term) ==
    Cardinality({k \in 1..Len(word_tokenize(Lower(text))) :
                    word_tokenize(Lower(text))[k] = term})

\* the first token of the lowercased text that is the term
FirstMet(text, term) ==
    CHOOSE k \in 1..Len(word_tokenize(Lower(text))) :
        /\ word_tokenize(Lower(text))[k] = term
        /\ \A n \in 1..(k - 1) : word_tokenize(Lower(text))[n] # term

HasExtension(filename, ext) ==
    /\ EndsWith(Lower(filename), ext)
    /\ \A k \in (Len(filename) - Len(ext) + 2)..Len(filename) : filename[k] # "/"
    /\ \E k \in 1..(Len(filename) - Len(ext)) :
          /\ filename[k] \notin {".", "/"}
          /\ \A n \in k..(Len(filename) - Len(ext)) : filename[n] # "/"

Supported(filename) ==
    HasExtension(filename, ExtPdf) \/ HasExtension(filename, ExtDocx)

\* C18: validation raises the invalid-type error exactly when the lowercased
\* extension of the filename is neither .pdf nor .docx; otherwise it raises the
\* too-large error exactly when the stream is longer than max_file_size_mb
\* megabytes; otherwise it raises nothing and leaves the stream at offset 0.
C18_Validation ==
    called.op = "validate" =>
        /\ called.raised = "invalid_type" <=> ~Supported(called.filename)
        /\ called.raised = "too_large"
              <=> /\ Supported(called.filename)
                  /\ called.file.size > called.max_file_size_mb * 1048576
        /\ called.raised = "none" => called.file_after.pos = 0
        /\ called.raised \in {"none", "invalid_type", "too_large"}

\* a file of exactly 10 MB with an extension in capitals, read to its end before,
\* passes and is rewound
C18_Witness ==
    /\ called.op = "validate"
    /\ called.filename = <<"a", ".", "P", "D", "F">>
    /\ called.file = [size |-> 10485760, pos |-> 10485760, corrupt |-> FALSE, parts |-> <<>>]
    /\ called.raised = "none"
    /\ called.file_after.pos = 0

\* what process_files returns for a file when it is the only file of the call
OutcomeAlone(pair, chunk_size) ==
    process_files(<<pair>>, max_file_size_bytes(DefaultMaxFileSizeMb),
                  chunk_size)[pair.filename]

\* C17: the map process_files returns holds, for every file of the call and under
\* its filename, the outcome of that file, a success entry or an error entry, the
\* same as when the file is processed with no other file in the call.
C17_EveryOutcomePresent ==
    called.op = "process" =>
        \A k \in 1..Len(called.files) :
            /\ called.files[k].filename \in DOMAIN called.results
            /\ called.results[called.files[k].filename].status \in {"success", "error"}
            /\ called.results[called.files[k].filename]
                  = OutcomeAlone(called.files[k], called.chunk_size)

\* C19: the order of the options of an MCQ is drawn from a source given to the
\* generator or to the call, not from the state of the process: the options of the
\* first MCQ of a call of a rule-based generator are in the same order whatever
\* state earlier or concurrent requests have left the random module's generator in.
C19_OrderUnaffectedByProcess ==
    (RuleBasedMode /\ Len(log) >= 1 /\ log[1].type = "mcq" /\ log[1].outcome = "emitted") =>
        \A r \in RngStates :
            questions[1].options
                = shuffle(<<MainTopicAnswer>> \o generate_rule_based_distractors(valid_contexts[1]), r)

\* what follows the scheme in a header: the text after its first space
AfterScheme(header) ==
    IF Find(header, " ") = 0 THEN <<>>
    ELSE SubSeq(header, Find(header, " ") + 1, Len(header))

\* C20: on every endpoint that token_required wraps, the handler runs only when
\* verify_id_token was called with the token of the request and returned; a
\* request without an Authorization header, or with a header that has no token
\* after the scheme, gets 401 with an error body and the handler does not run.
C20_HandlerOnlyAfterVerification ==
    (called.op = "request" /\ called.endpoint \in WrappedEndpoints) =>
        /\ called.response.handler_ran =>
              /\ called.response.verify_called
              /\ called.outcome = "ok"
              /\ called.header # NoneValue
              /\ called.response.token # <<>>
              /\ called.response.token = Split(called.header, " ")[2]
        /\ (called.header = NoneValue \/ Strip(AfterScheme(called.header)) = <<>>) =>
              /\ called.response.status = 401
              /\ called.response.error
              /\ ~called.response.handler_ran
              /\ ~called.response.verify_called

\* an upload request with a token that verify_id_token accepts: the handler runs
C20_Witness ==
    /\ called.op = "request"
    /\ called.endpoint = "upload"
    /\ called.header = <<"B", "e", "a", "r", "e", "r", " ", "t", "o", "k">>
    /\ called.response.verify_called
    /\ called.response.token = <<"t", "o", "k">>
    /\ called.response.handler_ran
    /\ called.response.status = 200

\* a chunk that is not None and whose trimmed length is more than 10
IsLongChunk(chunk) ==
    chunk # NoneValue /\ Len(Strip(chunk)) > 10

\* the chunks of the request that are long enough, in their order
ValidChunks ==
    SelectSeq(context_chunks, IsLongChunk)

\* the entries of the log before the last that have the type of the last
EarlierOfType ==
    {k \in 1..(Len(log) - 1) : log[k].type = last.type}

\* C21: the context of the i-th iteration of a type, the rejected and the raising
\* iterations counted, is valid_chunks[i mod len(valid_chunks)], where valid_chunks
\* holds the chunks of trimmed length > 10 in their order; the count starts at 0
\* for every type; no chunk of trimmed length <= 10 is a context.
C21_RoundRobinContext ==
    last.type # "none" =>
        /\ last.i = Cardinality(EarlierOfType)
        /\ last.context = ValidChunks[(last.i % Len(ValidChunks)) + 1]
        /\ Len(Strip(last.context)) > 10

\* the second iteration of a type, after one that raised, with one valid chunk
\* among the chunks of the request: the context is that chunk again
C21_Witness ==
    /\ Len(log) = 2
    /\ log[1].outcome = "raised"
    /\ last.i = 1
    /\ Len(context_chunks) = 2
    /\ Len(ValidChunks) = 1
    /\ last.context = ChunkMars

\* the place of a type in the order MCQ, TRUE_FALSE, SHORT_ANSWER, LONG_ANSWER, HOTS
TypeRank(type) ==
    CHOOSE k \in 1..5 :
        <<"mcq", "true_false", "short_answer", "long_answer", "hots">>[k] = type

\* C22: the questions of a result are grouped by type in the order MCQ,
\* TRUE_FALSE, SHORT_ANSWER, LONG_ANSWER, HOTS: no question of an earlier type
\* comes after a question of a later type, whatever the config.
C22_TypeOrder ==
    \A a, b \in 1..Len(questions) :
        a < b => TypeRank(questions[a].type) <= TypeRank(questions[b].type)

\* a returned call that emitted a true/false question and then a HOTS question
C22_Witness ==
    /\ pc = "done"
    /\ Len(questions) = 2
    /\ questions[1].type = "true_false"
    /\ questions[2].type = "hots"

\* the number of tokens of the first n of a sequence of token lists
RECURSIVE TokensUpTo(_, _)
TokensUpTo(lists, n) ==
    IF n = 0 THEN 0 ELSE Len(lists[n]) + TokensUpTo(lists, n - 1)

\* the tokens of the sentences of the text of the call, and of its chunks
SentenceTokens ==
    [s \in 1..Len(sent_tokenize(called.text)) |->
        word_tokenize(sent_tokenize(called.text)[s])]

ChunkTokens ==
    [c \in 1..Len(called.chunks) |-> TokensOf(called.chunks[c])]

\* the sentence that chunk c starts with: the one that as many tokens come before
\* as there are in the chunks before c
FirstSentenceOf(c) ==
    CHOOSE s \in 1..Len(SentenceTokens) :
        TokensUpTo(SentenceTokens, s - 1) = TokensUpTo(ChunkTokens, c - 1)

\* C23: chunking is greedy: the tokens of a chunk and of the first sentence of the
\* chunk after it are more than chunk_size together; when every sentence alone
\* has more than chunk_size tokens, every sentence is a chunk, in the order of
\* the sentences.
C23_GreedyChunks ==
    called.op = "split" =>
        /\ \A c \in 1..(Len(called.chunks) - 1) :
              Len(ChunkTokens[c]) + Len(SentenceTokens[FirstSentenceOf(c + 1)])
                  > called.chunk_size
        /\ (\A s \in 1..Len(SentenceTokens) : Len(SentenceTokens[s]) > called.chunk_size) =>
              ChunkTokens = SentenceTokens

\* three sentences of 2, 4 and 3 tokens split with chunk_size 6: the first two
\* fill the first chunk to just chunk_size and the third starts the second
C23_Witness ==
    /\ called.op = "split"
    /\ called.chunk_size = 6
    /\ Len(called.chunks) = 2
    /\ Len(SentenceTokens) = 3
    /\ Len(SentenceTokens[1]) = 2
    /\ Len(SentenceTokens[2]) = 4
    /\ Len(ChunkTokens[1]) = 6
    /\ FirstSentenceOf(2) = 3

\* a step of generate_questions: its start, one of its iterations, or its return
InGenerateQuestions ==
    pc \in {"loop", "done"} \/ pc' \in {"loop", "done"}

\* C24: generate_questions does not change the strategy state of the generator
\* (model_name, model, tokenizer, pipeline), an iteration in which the backend
\* raised and the rule-based fallback was used included: inside a call, after
\* such an iteration, the generator is still in model mode under its model name.
C24_StrategyKept ==
    /\ [][InGenerateQuestions => (qg' = qg /\ AI_AVAILABLE' = AI_AVAILABLE)]_vars
    /\ []((pc \in {"loop", "done"} /\ last.backend_raised # {}) =>
              (qg.question_generator # "None" /\ qg.model_name \in Pretrained))

\* an iteration in model mode whose backend call raised, with another iteration
\* to come: the generator still has its pipeline
C24_Witness ==
    /\ pc = "loop"
    /\ Len(log) = 1
    /\ last.backend_raised = {"question"}
    /\ qg.question_generator # "None"
    /\ qg.model_name = "t5-small"

\* C25: in model mode the difficulty of the config sets the sampling temperature
\* of the backend for the question of every type: temperature = 0.7 + 0.1 *
\* difficulty (here in tenths), the difficulty being 3 when the config has none.
C25_DifficultySetsTemperature ==
    (~RuleBasedMode /\ last.type # "none") =>
        last.temperature = 7 + ConfigGet(config, "difficulty", 3)

\* the lowercased context contains one of is, are, was, were, has, have, had,
\* consists, contains, includes
HasFactualWord(context) ==
    \E word \in { <<"i","s">>, <<"a","r","e">>, <<"w","a","s">>, <<"w","e","r","e">>,
                  <<"h","a","s">>, <<"h","a","v","e">>, <<"h","a","d">>,
                  <<"c","o","n","s","i","s","t","s">>,
                  <<"c","o","n","t","a","i","n","s">>,
                  <<"i","n","c","l","u","d","e","s">> } :
        Contains(Lower(context), word)

\* C26: the answer recorded for a true/false question is 'True' exactly when the
\* lowercased context contains one of the ten words, and 'False' otherwise,
\* whatever the statement that was generated and whatever the strategy.
C26_TrueFalseAnswer ==
    (last.type = "true_false" /\ last.outcome = "emitted") =>
        /\ answer_key[Len(answer_key)].question = last.candidate
        /\ answer_key[Len(answer_key)].answer
              = IF HasFactualWord(last.context) THEN <<"T","r","u","e">>
                ELSE <<"F","a","l","s","e">>

\* a true/false question that the backend generated from a context with none of
\* the words: its answer is 'False'
C26_Witness ==
    /\ last.type = "true_false"
    /\ last.outcome = "emitted"
    /\ ~RuleBasedMode
    /\ last.backend_raised = {}
    /\ last.context = ChunkMars
    /\ answer_key[Len(answer_key)].answer = <<"F","a","l","s","e">>

\* a PDF that _validate_file lets through
IsValidPdf(pair) ==
    /\ HasExtension(pair.filename, ExtPdf)
    /\ pair.file.size <= max_file_size_bytes(DefaultMaxFileSizeMb)

\* a document with pages, none of which has text
IsImageOnly(file) ==
    /\ ~file.corrupt
    /\ file.parts # <<>>
    /\ \A p \in 1..Len(file.parts) : file.parts[p] = <<>>

\* C27: a PDF that cannot be parsed, or that has pages but no text on any of them,
\* is reported with the error of the failed extraction ('Could not extract text
\* ...'); the error of the empty content ('No text could be extracted ...') is
\* reported only when the extraction succeeded and its text is blank.
C27_ImageOnlyIsExtractionFailure ==
    called.op = "process" =>
        \A k \in 1..Len(called.files) :
            LET pair == called.files[k]
                outcome == OutcomeAlone(pair, called.chunk_size)
            IN  /\ (IsValidPdf(pair) /\ (pair.file.corrupt \/ IsImageOnly(pair.file))) =>
                      outcome = [status |-> "error", message |-> "pdf_unreadable"]
                /\ (outcome.status = "error" /\ outcome.message = "no_text") =>
                      ~pair.file.corrupt

\* C28: every entry of status 'success' that process_files returns has a cleaned
\* text that is not empty and at least one chunk, a document whose text is only
\* URLs or only characters without an ASCII equivalent included.
C28_SuccessHasText ==
    called.op = "process" =>
        \A name \in DOMAIN called.results :
            called.results[name].status = "success" =>
                /\ called.results[name].cleaned_text # <<>>
                /\ Len(called.results[name].chunks) >= 1

\* C29: model_used of every emitted question names the strategy that produced its
\* text: 'rule-based' when the generator is rule-based or when the backend raised
\* and the text is the rule-based one of the fallback, the name of the model when
\* the backend returned the text.
C29_ModelUsedNamesStrategy ==
    (last.type # "none" /\ last.outcome = "emitted") =>
        questions[Len(questions)].model_used
            = IF RuleBasedMode \/ "question" \in last.backend_raised THEN "rule-based"
              ELSE qg.model_name

\* C30: two update_question calls on the same bank that target different in-range
\* indexes both take effect whatever their interleaving: once both have returned,
\* the stored questions array holds the new question object of each.
C30_BothUpdatesStored ==
    ((\A c \in Callers : updates[c].pc = "returned")
        /\ updates[1].question_index # updates[2].question_index)
    => \A c \in Callers :
           bank.questions[updates[c].question_index + 1] = updates[c].data
====
